---- MODULE Spec2Model ----
(***************************************************************************)
(* Model of the file-intake pipeline of nomadly:                           *)
(*   - EnhancedFileParser (validate, parse and the format extractors),     *)
(*   - MetadataExtractor (extractMetadataFromContent and its strategies),  *)
(*   - the lazy load of the OCR runtime shared by all parse invocations,   *)
(*   - the demo App (upload session) and the MetadataForm component.       *)
(* Strings are sequences of one-character strings; an optional value is a  *)
(* sequence of length 0 (absent) or 1 (present).                            *)
(***************************************************************************)
EXTENDS Integers, Sequences, FiniteSets, TLC

VARIABLES
  cfg,            \* EnhancedFileParser fields: supportedFormats, maxFileSize
  file,           \* the File handed to parse(): <<>> before the call
  pc,             \* position of the parse() invocation
  settled,        \* state of the promise returned by parse()
  result,         \* the ParseResult the promise resolved to: <<>> or <<r>>
  validation,     \* what validate(file) returned inside parse(): <<>> or <<v>>
  started,        \* extractors entered by this parse(), in order
  contentReads,   \* number of reads of the file's bytes
  ocrCreations,   \* number of calls of createOcrWorker
  worker,         \* OCR worker of parseImage: "none", "running", "terminated"
  pdfDoc,         \* PDF document of parsePDF: "none", "open", "destroyed"
  pending,        \* outcome of the try block awaiting the finally block
  pagesLeft,      \* pages of the PDF still to read
  pageTexts,      \* parsePDF's pageTexts
  content,        \* argument of extractMetadataFromContent: <<>> or <<c>>
  fuseHits,       \* what fuse.search answers for each header
  meta,           \* outcome of extractMetadataFromContent: <<>> or <<o>>
  mapping,        \* a call of FieldMatcher.autoMap and its Map: <<>> or <<m>>
  ocrRuntime,     \* the page's OCR runtime and the image parses using it
  app,            \* state of the demo App: <<>> before its first render
  form            \* state of a MetadataForm: <<>> before it is mounted

parseVars == <<cfg, file, pc, settled, result, validation, started,
               contentReads, ocrCreations, worker, pdfDoc, pending,
               pagesLeft, pageTexts>>
metaVars == <<content, fuseHits, meta, mapping>>
sessionVars == <<ocrRuntime, app, form>>
vars == <<parseVars, metaVars, sessionVars>>

(***************************************************************************)
(* Bounds                                                                  *)
(***************************************************************************)
MaxFormats == 1
MaxLimit == 1
MaxRows == 2
MaxLines == 2
MaxHeaders == 2
MaxPages == 2
MaxCalls == 2
MaxSelections == 3
MaxPending == 2
MaxFields == 2

(***************************************************************************)
(* Generic helpers                                                         *)
(***************************************************************************)
SeqsUpTo(S, n) == UNION {[1..k -> S] : k \in 0..n}

Some(x) == <<x>>

None == <<>>

RECURSIVE Digits(_)
\* the decimal digits of a natural number
Digits(n) ==
  IF n < 10 THEN <<ToString(n)>> ELSE Append(Digits(n \div 10), ToString(n % 10))

RECURSIVE Concat(_)
Concat(ss) == IF ss = <<>> THEN <<>> ELSE Head(ss) \o Concat(Tail(ss))

RECURSIVE Join(_, _)
\* Array.prototype.join: the items with the separator between neighbours
Join(ss, sep) ==
  IF ss = <<>> THEN <<>>
  ELSE IF Len(ss) = 1 THEN Head(ss)
  ELSE Head(ss) \o sep \o Join(Tail(ss), sep)

(***************************************************************************)
(* Characters and strings                                                  *)
(***************************************************************************)
Whitespace == {" ", "\t", "\r", "\n"}

UpperLetters ==
  <<"A", "B", "C", "D", "E", "F", "G", "H", "I", "J", "K", "L", "M",
    "N", "O", "P", "Q", "R", "S", "T", "U", "V", "W", "X", "Y", "Z">>

LowerLetters ==
  <<"a", "b", "c", "d", "e", "f", "g", "h", "i", "j", "k", "l", "m",
    "n", "o", "p", "q", "r", "s", "t", "u", "v", "w", "x", "y", "z">>

DigitChars == {"0", "1", "2", "3", "4", "5", "6", "7", "8", "9"}

Letters == {UpperLetters[i] : i \in 1..26} \cup {LowerLetters[i] : i \in 1..26}

\* \w
WordChars == Letters \cup DigitChars \cup {"_"}

\* String.prototype.toLowerCase
ToLowerCase(s) ==
  [i \in 1..Len(s) |->
     IF \E k \in 1..26 : UpperLetters[k] = s[i]
     THEN LowerLetters[CHOOSE k \in 1..26 : UpperLetters[k] = s[i]]
     ELSE s[i]]

RECURSIVE StripStart(_, _)
\* s without its leading run of the given characters
StripStart(s, chars) ==
  IF s # <<>> /\ Head(s) \in chars THEN StripStart(Tail(s), chars) ELSE s

RECURSIVE StripEnd(_, _)
\* s without its trailing run of the given characters
StripEnd(s, chars) ==
  IF s # <<>> /\ s[Len(s)] \in chars
  THEN StripEnd(SubSeq(s, 1, Len(s) - 1), chars) ELSE s

\* String.prototype.trim
Trim(s) == StripEnd(StripStart(s, Whitespace), Whitespace)

RECURSIVE SplitOn(_, _, _)
\* pieces of s between occurrences of the character c; cur is the open piece
SplitOn(s, c, cur) ==
  IF s = <<>> THEN <<cur>>
  ELSE IF Head(s) = c THEN <<cur>> \o SplitOn(Tail(s), c, <<>>)
  ELSE SplitOn(Tail(s), c, Append(cur, Head(s)))

\* text.split(/\r?\n/)
SplitLines(text) ==
  LET parts == SplitOn(text, "\n", <<>>)
  IN [i \in 1..Len(parts) |->
        IF i < Len(parts) /\ parts[i] # <<>> /\ parts[i][Len(parts[i])] = "\r"
        THEN SubSeq(parts[i], 1, Len(parts[i]) - 1) ELSE parts[i]]

RECURSIVE Collapse(_, _, _, _)
\* s.replace(/[chars]+/g, by): each run of the characters becomes by; inRun is
\* TRUE while inside a run
Collapse(s, chars, by, inRun) ==
  IF s = <<>> THEN <<>>
  ELSE IF Head(s) \in chars
       THEN (IF inRun THEN <<>> ELSE <<by>>) \o Collapse(Tail(s), chars, by, TRUE)
       ELSE <<Head(s)>> \o Collapse(Tail(s), chars, by, FALSE)

\* .map(line => line.trim()).filter(Boolean)
NonBlankLines(text) ==
  LET trimmed == [i \in 1..Len(SplitLines(text)) |-> Trim(SplitLines(text)[i])]
  IN SelectSeq(trimmed, LAMBDA l : l # <<>>)

\* the words the metadata extractor knows (aliases, priorities, line labels,
\* location keywords), and one it does not (unknown)
Word ==
  [place |-> <<"p", "l", "a", "c", "e">>, name |-> <<"n", "a", "m", "e">>,
   landmark |-> <<"l", "a", "n", "d", "m", "a", "r", "k">>,
   monument |-> <<"m", "o", "n", "u", "m", "e", "n", "t">>,
   site |-> <<"s", "i", "t", "e">>, title |-> <<"t", "i", "t", "l", "e">>,
   attraction |-> <<"a", "t", "t", "r", "a", "c", "t", "i", "o", "n">>,
   location |-> <<"l", "o", "c", "a", "t", "i", "o", "n">>,
   city |-> <<"c", "i", "t", "y">>, state |-> <<"s", "t", "a", "t", "e">>,
   country |-> <<"c", "o", "u", "n", "t", "r", "y">>,
   region |-> <<"r", "e", "g", "i", "o", "n">>,
   address |-> <<"a", "d", "d", "r", "e", "s", "s">>,
   loc |-> <<"l", "o", "c">>, area |-> <<"a", "r", "e", "a">>,
   unknown |-> <<"u", "n", "k", "n", "o", "w", "n">>]

(***************************************************************************)
(* Files and parser configuration                                          *)
(***************************************************************************)
\* the extensions the switch of parse() names, and one it does not (bin)
Ext ==
  [csv |-> <<"c", "s", "v">>, xlsx |-> <<"x", "l", "s", "x">>,
   xls |-> <<"x", "l", "s">>, pdf |-> <<"p", "d", "f">>,
   json |-> <<"j", "s", "o", "n">>, txt |-> <<"t", "x", "t">>,
   png |-> <<"p", "n", "g">>, jpg |-> <<"j", "p", "g">>,
   jpeg |-> <<"j", "p", "e", "g">>, webp |-> <<"w", "e", "b", "p">>,
   gif |-> <<"g", "i", "f">>, bin |-> <<"b", "i", "n">>]

ImageExtensions == {Ext.png, Ext.jpg, Ext.jpeg, Ext.webp, Ext.gif}

\* FileFormat (types/index.ts); validator is what format.validator(file)
\* does: return true, return false (or be absent), or throw
FileFormat ==
  [extension : {Ext.csv, Ext.xlsx, Ext.pdf, Ext.json, Ext.txt, Ext.png, Ext.bin},
   mimeType : {"text/plain"},
   validator : {"accept", "reject", "throw"}]

\* File: names "a.<ext>" and names without an extension; sizes reach one
\* byte above the largest configured limit
File ==
  [name : {<<"a", ".">> \o e :
             e \in {Ext.csv, Ext.xlsx, Ext.pdf, Ext.json, Ext.txt, Ext.jpg,
                    Ext.bin}}
            \cup {<<"a", ".", "b", ".", "P", "N", "G">>, <<"c", "s", "v">>,
                  <<"a", ".">>},
   type : {"text/plain", "application/octet-stream"},
   size : 0..(MaxLimit + 1), lastModified : {1}]

\* EnhancedFileParserConfig: maxFileSize is optional
EnhancedFileParserConfig ==
  [supportedFormats : SeqsUpTo(FileFormat, MaxFormats),
   maxFileSize : {None} \cup {Some(n) : n \in 0..MaxLimit}]

\* constructor(config)
Constructor(config) ==
  [supportedFormats |-> config.supportedFormats,
   maxFileSize |-> IF config.maxFileSize = None
                   THEN 10 * 1024 * 1024 ELSE config.maxFileSize[1]]

RECURSIVE LastDot(_, _)
\* position of the last "." among the first n characters of the name, or 0
LastDot(name, n) ==
  IF n = 0 THEN 0 ELSE IF name[n] = "." THEN n ELSE LastDot(name, n - 1)

\* getFileExtension: filename.match(/\.([^.]+)$/), '' when there is no match
getFileExtension(filename) ==
  LET d == LastDot(filename, Len(filename))
  IN IF d = 0 \/ d = Len(filename) THEN <<>>
     ELSE SubSeq(filename, d + 1, Len(filename))

(***************************************************************************)
(* Thrown values, messages and results                                     *)
(***************************************************************************)
\* a piece of message text: a fixed text and the values interpolated into it
Piece(text, args) == [text |-> text, args |-> args]

\* new Error(message)
Error(text, args) == [isError |-> TRUE, text |-> text, args |-> args]

\* a thrown value that is not an Error instance
NonError == [isError |-> FALSE, text |-> "non-error", args |-> <<>>]

\* variant: only the first error reaches the message
JoinErrorsFirstOnly(errors) == IF errors = <<>> THEN <<>> ELSE <<errors[1]>>

\* errors.join('; ')
JoinErrors(errors) ==
  Join([i \in 1..Len(errors) |-> <<errors[i]>>], <<Piece("; ", <<>>)>>)

ValidationFailure(errors) ==
  [success |-> FALSE, content |-> None,
   error |-> Some([code |-> "VALIDATION_ERROR",
                   message |-> JoinErrors(errors),
                   details |-> errors])]

\* variant: the failure result comes without its error
ParseCatchNoError(error) == [success |-> FALSE, content |-> None, error |-> None]

\* the catch block of parse()
ParseCatch(error) ==
  [success |-> FALSE, content |-> None,
   error |-> Some([code |-> "PARSE_ERROR",
                   message |-> IF error.isError
                               THEN <<Piece(error.text, error.args)>>
                               ELSE <<Piece("Unknown parsing error", <<>>)>>,
                   details |-> <<Piece(error.text, error.args)>>])]

\* extractMetadata(file)
extractMetadata(f) ==
  [name |-> f.name, size |-> f.size, type |-> f.type,
   lastModified |-> f.lastModified]

ParseSuccess(parsedData, f) ==
  [success |-> TRUE,
   content |-> Some([raw |-> parsedData, metadata |-> extractMetadata(f)]),
   error |-> None]

(***************************************************************************)
(* EnhancedFileParser.validate                                             *)
(***************************************************************************)
\* the predicate of supportedFormats.find: "match", "nomatch" or "throw"
FormatTest(format, f) ==
  IF ToLowerCase(format.extension) # ToLowerCase(getFileExtension(f.name))
  THEN "nomatch"
  ELSE IF format.mimeType = f.type THEN "match"
  ELSE CASE format.validator = "accept" -> "match"
         [] format.validator = "reject" -> "nomatch"
         [] format.validator = "throw" -> "throw"

RECURSIVE FindFormat(_, _)
\* supportedFormats.find(...): stops at the first match or the first throw
FindFormat(formats, f) ==
  IF formats = <<>> THEN "nomatch"
  ELSE IF FormatTest(Head(formats), f) = "nomatch"
       THEN FindFormat(Tail(formats), f)
       ELSE FormatTest(Head(formats), f)

\* variant: a file of exactly maxFileSize bytes is refused
SizeErrorsExclusive(c, f) ==
  IF f.size >= c.maxFileSize
  THEN <<Piece("File size (%1MB) exceeds maximum allowed size of %2MB", <<>>)>>
  ELSE <<>>

\* the size check; toFixed(2) of a size in MB is its rounded hundredths
SizeErrors(c, f) ==
  LET toFixed2(bytes) == Digits((bytes * 100 + 524288) \div 1048576)
  IN IF f.size > c.maxFileSize
     THEN <<Piece("File size (%1MB) exceeds maximum allowed size of %2MB",
                  <<toFixed2(f.size), toFixed2(c.maxFileSize)>>)>>
     ELSE <<>>

\* the empty-file check
EmptyErrors(f) == IF f.size = 0 THEN <<Piece("File is empty", <<>>)>> ELSE <<>>

\* the format check, with the configured extensions for the message
FormatErrors(c, f) ==
  IF FindFormat(c.supportedFormats, f) = "nomatch"
  THEN <<Piece("File format not supported. Supported formats: %1",
               [i \in 1..Len(c.supportedFormats) |->
                  c.supportedFormats[i].extension])>>
  ELSE <<>>

\* variant: validate returns at the first failed check
validateFailFast(c, f) ==
  LET errors == IF SizeErrors(c, f) # <<>> THEN SizeErrors(c, f)
                ELSE IF EmptyErrors(f) # <<>> THEN EmptyErrors(f)
                ELSE FormatErrors(c, f)
  IN IF FindFormat(c.supportedFormats, f) = "throw"
     THEN [threw |-> TRUE, isValid |-> FALSE, errors |-> <<>>]
     ELSE [threw |-> FALSE, isValid |-> (Len(errors) = 0), errors |-> errors]

\* validate(file): threw is TRUE when a format's validator raised
validate(c, f) ==
  LET errors == SizeErrors(c, f) \o EmptyErrors(f) \o FormatErrors(c, f)
  IN IF FindFormat(c.supportedFormats, f) = "throw"
     THEN [threw |-> TRUE, isValid |-> FALSE, errors |-> <<>>]
     ELSE [threw |-> FALSE, isValid |-> (Len(errors) = 0), errors |-> errors]

\* FileParser.validate(file) of the first parser, for the same configuration:
\* a format matches when extension and MIME type both match, or else when
\* its validator returns true, whatever the extension
FileParserValidate(c, f) ==
  LET fileExtension == ToLowerCase(getFileExtension(f.name))
      test(format) ==
        IF ToLowerCase(format.extension) = fileExtension /\ format.mimeType = f.type
        THEN "match"
        ELSE CASE format.validator = "accept" -> "match"
               [] format.validator = "reject" -> "nomatch"
               [] format.validator = "throw" -> "throw"
      n == Len(c.supportedFormats)
      \* supportedFormats.find stops at the first match or the first throw
      tried == {i \in 1..n : test(c.supportedFormats[i]) # "nomatch"}
      formatMatch ==
        IF tried = {} THEN "nomatch"
        ELSE test(c.supportedFormats[CHOOSE i \in tried : \A j \in tried : i <= j])
      errors ==
        SizeErrors(c, f) \o EmptyErrors(f)
          \o (IF formatMatch = "nomatch"
              THEN <<Piece("File format not supported. Supported formats: %1",
                           [i \in 1..n |-> c.supportedFormats[i].extension])>>
              ELSE <<>>)
  IN IF formatMatch = "throw"
     THEN [threw |-> TRUE, isValid |-> FALSE, errors |-> <<>>]
     ELSE [threw |-> FALSE, isValid |-> (Len(errors) = 0), errors |-> errors]

(***************************************************************************)
(* JavaScript values as the parsers see them                               *)
(***************************************************************************)
\* t is the type tag, v the text of a scalar, keys/items the members of an
\* object (keys in insertion order) or the elements of an array
Value(t, v, keys, items) == [t |-> t, v |-> v, keys |-> keys, items |-> items]

Undefined == Value("undefined", <<>>, <<>>, <<>>)
Null == Value("null", <<>>, <<>>, <<>>)
Str(s) == Value("string", s, <<>>, <<>>)
Num(digits) == Value("number", digits, <<>>, <<>>)
True == Value("boolean", <<"t", "r", "u", "e">>, <<>>, <<>>)
Arr(items) == Value("array", <<>>, <<>>, items)
Obj(keys, items) == Value("object", <<>>, keys, items)

\* Object.keys(value) of a non-null value: own enumerable keys
ObjectKeys(val) ==
  CASE val.t = "object" -> val.keys
    [] val.t = "array" -> [i \in 1..Len(val.items) |-> Digits(i - 1)]
    [] val.t = "string" -> [i \in 1..Len(val.v) |-> Digits(i - 1)]
    [] OTHER -> <<>>

\* Object.values(value)
ObjectValues(val) ==
  CASE val.t \in {"object", "array"} -> val.items
    [] val.t = "string" -> [i \in 1..Len(val.v) |-> Str(<<val.v[i]>>)]
    [] OTHER -> <<>>

\* value[key]; the caller has excluded null and undefined
Index(val, key) ==
  LET keys == ObjectKeys(val)
  IN IF \E i \in 1..Len(keys) : keys[i] = key
     THEN ObjectValues(val)[CHOOSE i \in 1..Len(keys) : keys[i] = key]
     ELSE Undefined

\* String(value)
JsString(val) ==
  CASE val.t = "undefined" -> <<"u", "n", "d", "e", "f", "i", "n", "e", "d">>
    [] val.t = "null" -> <<"n", "u", "l", "l">>
    [] val.t \in {"string", "number", "boolean"} -> val.v
    [] val.t = "array" ->
         Join([i \in 1..Len(val.items) |->
                 IF val.items[i].t \in {"string", "number", "boolean"}
                 THEN val.items[i].v ELSE <<>>], <<",">>)
    [] OTHER -> <<"[", "o", "b", "j", "e", "c", "t", " ",
                  "O", "b", "j", "e", "c", "t", "]">>

RECURSIVE Stringify(_)
\* JSON.stringify of an object or array (members that are undefined are not
\* offered by the inputs of this model)
Stringify(val) ==
  CASE val.t = "string" -> <<"\"">> \o val.v \o <<"\"">>
    [] val.t \in {"number", "boolean"} -> val.v
    [] val.t = "array" ->
         <<"[">> \o Join([i \in 1..Len(val.items) |-> Stringify(val.items[i])],
                         <<",">>) \o <<"]">>
    [] val.t = "object" ->
         <<"{">> \o Join([i \in 1..Len(val.keys) |->
                           <<"\"">> \o val.keys[i] \o <<"\"", ":">>
                             \o Stringify(val.items[i])],
                         <<",">>) \o <<"}">>
    [] OTHER -> <<"n", "u", "l", "l">>

\* toCellValue: null for null/undefined, scalars unchanged, the rest as JSON
toCellValue(val) ==
  IF val.t \in {"null", "undefined"} THEN Null
  ELSE IF val.t \in {"string", "number", "boolean"} THEN val
  ELSE Str(Stringify(val))

\* String(value ?? '')
StringOrEmpty(val) ==
  IF val.t \in {"null", "undefined"} THEN <<>> ELSE JsString(val)

(***************************************************************************)
(* ParsedTableData and the text-to-table transform                         *)
(***************************************************************************)
ParsedTableData(headers, rows, rowCount, columnCount, sourceType, ocrText) ==
  [headers |-> headers, rows |-> rows, rowCount |-> rowCount,
   columnCount |-> columnCount, sourceType |-> sourceType, ocrText |-> ocrText]

\* createTextData(text, sourceType)
createTextData(text, sourceType) ==
  LET lines == NonBlankLines(text)
  IN ParsedTableData(<<<<"C", "o", "n", "t", "e", "n", "t">>>>,
                     [i \in 1..Len(lines) |-> <<Str(lines[i])>>],
                     Len(lines), 1, sourceType,
                     IF sourceType = "image-ocr" THEN Some(text) ELSE None)

(***************************************************************************)
(* Outcome of a step that returns a value or throws                        *)
(***************************************************************************)
Returned(d) == [ok |-> TRUE, data |-> Some(d), error |-> None]

Threw(e) == [ok |-> FALSE, data |-> None, error |-> Some(e)]

NullTypeError == Error("Cannot convert undefined or null to object", <<>>)

(***************************************************************************)
(* parseCSV: the complete and error callbacks of Papa.parse                *)
(***************************************************************************)
\* complete(results): results.meta.fields may be undefined
parseCSVComplete(results) ==
  LET headers == IF results.fields = None THEN <<>> ELSE results.fields[1]
      rows == [i \in 1..Len(results.data) |->
                 [j \in 1..Len(headers) |->
                    toCellValue(Index(results.data[i], headers[j]))]]
  IN Returned(ParsedTableData(headers, rows, Len(rows), Len(headers), "csv", None))

(***************************************************************************)
(* parseExcel, after XLSX.utils.sheet_to_json(worksheet, {header: 1})      *)
(***************************************************************************)
parseExcelSheet(jsonData) ==
  IF Len(jsonData) = 0 THEN Threw(Error("Excel file is empty", <<>>))
  ELSE LET headers == [j \in 1..Len(jsonData[1]) |-> JsString(jsonData[1][j])]
           rest == Tail(jsonData)
           rows == [i \in 1..Len(rest) |->
                      [j \in 1..Len(rest[i]) |-> toCellValue(rest[i][j])]]
       IN Returned(ParsedTableData(headers, rows, Len(rows), Len(headers),
                                   "excel", None))

(***************************************************************************)
(* parseJSON, after JSON.parse(text)                                       *)
(***************************************************************************)
\* Array.isArray(v) && v.length > 0 && typeof v[0] === 'object'; typeof is
\* 'object' for null, arrays and objects
IsArrayOfObjects(val) ==
  /\ val.t = "array" /\ Len(val.items) > 0
  /\ val.items[1].t \in {"null", "array", "object"}

\* the table built from an array whose first element's keys are the headers
TableOfArray(arr) ==
  IF arr.items[1].t = "null" THEN Threw(NullTypeError)
  ELSE LET headers == ObjectKeys(arr.items[1])
       IN IF headers # <<>> /\ \E i \in 1..Len(arr.items) : arr.items[i].t = "null"
          THEN Threw(Error("Cannot read properties of null", <<>>))
          ELSE LET rows == [i \in 1..Len(arr.items) |->
                              [j \in 1..Len(headers) |->
                                 toCellValue(Index(arr.items[i], headers[j]))]]
               IN Returned(ParsedTableData(headers, rows, Len(rows),
                                           Len(headers), "json", None))

parseJSONData(data) ==
  IF IsArrayOfObjects(data) THEN TableOfArray(data)
  ELSE IF data.t = "null" THEN Threw(NullTypeError)
  ELSE LET vals == ObjectValues(data)
           \* Object.keys(data).find(key => data[key] is an array of objects)
           found == {i \in 1..Len(vals) : IsArrayOfObjects(vals[i])}
           topLevelArrayKey == CHOOSE i \in found : \A j \in found : i <= j
       IN IF found # {} THEN TableOfArray(vals[topLevelArrayKey])
          ELSE IF data.t = "object"
          THEN LET headers == ObjectKeys(data)
                   row == [j \in 1..Len(data.items) |-> toCellValue(data.items[j])]
               IN Returned(ParsedTableData(headers, <<row>>, 1, Len(headers),
                                           "json", None))
          ELSE Threw(Error("JSON format not supported. Expected array of objects or single object.", <<>>))

(***************************************************************************)
(* parsePDF and parseImage, after the text has been obtained               *)
(***************************************************************************)

\* extractNativePdfText(page), given the items of page.getTextContent()
extractNativePdfText(items) ==
  Trim(Collapse(
         Join([i \in 1..Len(items) |->
                 IF items[i].t = "string" THEN items[i].v ELSE <<>>], <<" ">>),
         Whitespace, " ", FALSE))

\* variant: a PDF without native text yields an empty table
parsePDFTextLenient(texts) ==
  Returned(createTextData(Trim(Join(texts, <<"\n">>)), "pdf"))

\* the tail of parsePDF, after the finally block
parsePDFText(texts) ==
  LET text == Trim(Join(texts, <<"\n">>))
  IN IF text = <<>> THEN Threw(Error("No readable native text found in PDF", <<>>))
     ELSE Returned(createTextData(text, "pdf"))

\* the try block of parseImage after recognize resolved; data.text is absent
\* (<<>>) or a string
parseImageText(dataText) ==
  LET text == IF dataText = None THEN <<>> ELSE Trim(dataText[1])
  IN IF text = <<>> THEN Threw(Error("No readable text found in image", <<>>))
     ELSE Returned(createTextData(text, "image-ocr"))

(***************************************************************************)
(* What the libraries and the environment may answer                       *)
(***************************************************************************)
\* Papa.parse results: meta.fields and data (one object per record)
PapaResults ==
  [fields : {None, Some(<<>>), Some(<<Word.place>>),
             Some(<<Word.place, Word.city>>)},
   data : SeqsUpTo({Obj(<<>>, <<>>), Obj(<<Word.place>>, <<Str(<<"x">>)>>),
                    Obj(<<Word.place, Word.city>>, <<Num(<<"1">>), Null>>)},
                   MaxRows)]

\* sheet_to_json(..., {header: 1}): one array per sheet row, as long as the
\* row's last filled cell
SheetData ==
  SeqsUpTo({<<>>, <<Str(<<"x">>)>>, <<Str(<<"x">>), Num(<<"1">>)>>}, MaxRows)

\* JSON.parse results
JsonDocuments ==
  LET O1 == Obj(<<Word.place>>, <<Str(<<"x">>)>>)
      O2 == Obj(<<Word.place, Word.city>>, <<Str(<<"x">>), Arr(<<Num(<<"1">>)>>)>>)
  IN {Null, Num(<<"1">>), Str(<<"x">>), True, Arr(<<>>), Arr(<<Num(<<"1">>)>>),
      Arr(<<Null>>), Arr(<<O1>>), Arr(<<O2, O1>>), Arr(<<O1, Null>>),
      Arr(<<Obj(<<>>, <<>>), Null>>), Arr(<<O1, Num(<<"1">>)>>),
      Arr(<<Arr(<<O1>>)>>), Arr(<<Num(<<"1">>), Arr(<<O1>>)>>),
      Obj(<<>>, <<>>), O1, O2, Obj(<<Word.place>>, <<Arr(<<O1, O2>>)>>),
      Obj(<<Word.place, Word.city>>, <<Arr(<<>>), Arr(<<Null>>)>>)}

\* decoded text of a text file, and text recognised in an image
Texts ==
  {<<>>, <<" ">>, <<"x">>, <<"x", "\n", "\n", " ", "y", "\r", "\n", "z">>,
   <<"\n", "x", " ", "y", "\n">>}

\* items of page.getTextContent()
PageItems ==
  {<<>>, <<Str(<<" ">>)>>, <<Str(<<"x">>)>>, <<Str(<<"x", " ">>), Str(<<"\n", "y">>)>>,
   <<Undefined, Str(<<"x">>)>>}

\* a library call that throws: an Error, or a value that is not an Error
Failures == {Threw(Error("library failure", <<>>)), Threw(NonError)}

\* reader.onerror of readAsText
ReadFailures == {Threw(Error("Failed to read file", <<>>))}

Done == Returned(<<>>)

(***************************************************************************)
(* EnhancedFileParser.parse                                                *)
(***************************************************************************)
\* variant: the exception escapes parse() and the promise rejects
SettleThrownRejects(error) == [settled |-> "rejected", result |-> None]

\* the catch block of parse(): the promise resolves to a PARSE_ERROR result
SettleThrown(error) == [settled |-> "resolved", result |-> Some(ParseCatch(error))]

\* a return statement inside parse()
SettleReturned(r) == [settled |-> "resolved", result |-> Some(r)]

\* the end of parse() for an extractor that returned or threw
SettleOutcome(outcome, f) ==
  IF outcome.ok THEN SettleReturned(ParseSuccess(outcome.data[1], f))
  ELSE SettleThrown(outcome.error[1])

\* variant: PDF files are routed to the OCR extractor
ExtractorPdfToOcr(extension) ==
  LET e == ToLowerCase(extension)
  IN CASE e = Ext.csv -> "parseCSV"
       [] e \in {Ext.xlsx, Ext.xls} -> "parseExcel"
       [] e = Ext.json -> "parseJSON"
       [] e = Ext.txt -> "parseText"
       [] e \in ImageExtensions \cup {Ext.pdf} -> "parseImage"
       [] OTHER -> "default"

\* the switch of parse(): the extractor an extension is routed to
Extractor(extension) ==
  LET e == ToLowerCase(extension)
  IN CASE e = Ext.csv -> "parseCSV"
       [] e \in {Ext.xlsx, Ext.xls} -> "parseExcel"
       [] e = Ext.pdf -> "parsePDF"
       [] e = Ext.json -> "parseJSON"
       [] e = Ext.txt -> "parseText"
       [] e \in ImageExtensions -> "parseImage"
       [] OTHER -> "default"

\* parse(file) up to its first await: the values of the invocation's state.
\* hasDom tells whether window and document exist.
ParseEntry(c, f, hasDom) ==
  LET v == validate(c, f)
      x == Extractor(getFileExtension(f.name))
      stop(s, val, st, reads, ocr) ==
        [pc |-> "done", settled |-> s.settled, result |-> s.result,
         validation |-> val, started |-> st, contentReads |-> reads,
         ocrCreations |-> ocr]
      wait(at, reads, ocr) ==
        [pc |-> at, settled |-> "pending", result |-> None,
         validation |-> Some(v), started |-> <<x>>, contentReads |-> reads,
         ocrCreations |-> ocr]
  IN IF v.threw THEN stop(SettleThrown(Error("validator failed", <<>>)), None, <<>>, 0, 0)
     ELSE IF ~v.isValid
     THEN stop(SettleReturned(ValidationFailure(v.errors)), Some(v), <<>>, 0, 0)
     ELSE CASE x = "parseCSV" -> wait("parseCSV", 1, 0)
            [] x = "parseExcel" -> wait("parseExcel", 1, 0)
            [] x = "parseJSON" -> wait("parseJSON", 1, 0)
            [] x = "parseText" -> wait("parseText", 1, 0)
            [] x = "parsePDF" ->
                 IF hasDom THEN wait("parsePDF", 1, 0)
                 ELSE stop(SettleThrown(Error("PDF parsing requires a browser environment", <<>>)),
                           Some(v), <<x>>, 0, 0)
            [] x = "parseImage" ->
                 IF hasDom THEN wait("createOcrWorker", 0, 1)
                 ELSE stop(SettleThrown(Error("OCR requires a browser environment", <<>>)),
                           Some(v), <<x>>, 0, 1)
            [] OTHER ->
                 stop(SettleThrown(Error("Unsupported file type: %1",
                                         <<getFileExtension(f.name)>>)),
                      Some(v), <<>>, 0, 0)

extractorVars == <<worker, pdfDoc, pending, pagesLeft, pageTexts>>

\* parse(file) is called, in an environment with or without a DOM
ParseCall ==
  /\ pc = "idle"
  /\ \E f \in File, hasDom \in BOOLEAN :
       LET e == ParseEntry(cfg, f, hasDom)
       IN /\ file' = Some(f)
          /\ pc' = e.pc
          /\ settled' = e.settled
          /\ result' = e.result
          /\ validation' = e.validation
          /\ started' = e.started
          /\ contentReads' = e.contentReads
          /\ ocrCreations' = e.ocrCreations
  /\ UNCHANGED <<cfg, worker, pdfDoc, pending, pagesLeft, pageTexts>>
  /\ UNCHANGED <<metaVars, sessionVars>>

\* the invocation ends: the promise settles with what the extractor gave
Finish(outcome) ==
  /\ pc' = "done"
  /\ settled' = SettleOutcome(outcome, file[1]).settled
  /\ result' = SettleOutcome(outcome, file[1]).result
  /\ UNCHANGED <<cfg, file, validation, started, contentReads, ocrCreations>>
  /\ UNCHANGED <<metaVars, sessionVars>>

\* Papa.parse calls complete(results)
PapaComplete ==
  /\ pc = "parseCSV"
  /\ \E results \in PapaResults : Finish(parseCSVComplete(results))
  /\ UNCHANGED extractorVars

\* Papa.parse calls error(error)
PapaError ==
  /\ pc = "parseCSV"
  /\ Finish(Threw(Error("CSV parsing failed: %1", <<<<"e">>>>)))
  /\ UNCHANGED extractorVars

\* parseExcel after file.arrayBuffer(): XLSX.read and sheet_to_json
ExcelLoaded ==
  /\ pc = "parseExcel"
  /\ \E outcome \in Failures \cup {Returned(d) : d \in SheetData} :
       Finish(IF outcome.ok THEN parseExcelSheet(outcome.data[1]) ELSE outcome)
  /\ UNCHANGED extractorVars

\* parseJSON after readAsText(file): JSON.parse and the three shapes
JsonLoaded ==
  /\ pc = "parseJSON"
  /\ \E outcome \in ReadFailures \cup Failures \cup {Returned(d) : d \in JsonDocuments} :
       Finish(IF outcome.ok THEN parseJSONData(outcome.data[1]) ELSE outcome)
  /\ UNCHANGED extractorVars

\* parseText after readAsText(file)
TextLoaded ==
  /\ pc = "parseText"
  /\ \E outcome \in ReadFailures \cup {Returned(t) : t \in Texts} :
       Finish(IF outcome.ok THEN Returned(createTextData(outcome.data[1], "txt"))
              ELSE outcome)
  /\ UNCHANGED extractorVars

\* parsePDF after file.arrayBuffer() and getDocument(...).promise: the read
\* or the load failed, or a document of some number of pages is open
PdfOpened ==
  /\ pc = "parsePDF"
  /\ \E outcome \in Failures \cup {Returned(n) : n \in 0..MaxPages} :
       IF outcome.ok
       THEN /\ pdfDoc' = "open"
            /\ pagesLeft' = outcome.data[1]
            /\ pageTexts' = <<>>
            /\ pending' = None
            /\ pc' = IF outcome.data[1] = 0 THEN "pdfFinally" ELSE "pdfPage"
            /\ UNCHANGED <<cfg, file, settled, result, validation, started,
                           contentReads, ocrCreations, worker>>
            /\ UNCHANGED <<metaVars, sessionVars>>
       ELSE /\ Finish(outcome)
            /\ UNCHANGED extractorVars

\* variant: the page loop is not wrapped in try/finally
PdfPageNoFinally ==
  /\ pc = "pdfPage"
  /\ \E outcome \in Failures \cup {Returned(i) : i \in PageItems} :
       IF outcome.ok
       THEN LET nativeText == extractNativePdfText(outcome.data[1])
            IN /\ pageTexts' = IF nativeText # <<>>
                               THEN Append(pageTexts, nativeText) ELSE pageTexts
               /\ pagesLeft' = pagesLeft - 1
               /\ pc' = IF pagesLeft = 1 THEN "pdfFinally" ELSE "pdfPage"
               /\ UNCHANGED <<cfg, file, settled, result, validation, started,
                              contentReads, ocrCreations, worker, pdfDoc, pending>>
               /\ UNCHANGED <<metaVars, sessionVars>>
       ELSE /\ Finish(outcome)
            /\ UNCHANGED extractorVars

\* one turn of the page loop: getPage and extractNativePdfText
PdfPage ==
  /\ pc = "pdfPage"
  /\ \E outcome \in Failures \cup {Returned(i) : i \in PageItems} :
       IF outcome.ok
       THEN LET nativeText == extractNativePdfText(outcome.data[1])
            IN /\ pageTexts' = IF nativeText # <<>>
                               THEN Append(pageTexts, nativeText) ELSE pageTexts
               /\ pagesLeft' = pagesLeft - 1
               /\ pc' = IF pagesLeft = 1 THEN "pdfFinally" ELSE "pdfPage"
               /\ UNCHANGED pending
       ELSE /\ pending' = Some(outcome)
            /\ pc' = "pdfFinally"
            /\ UNCHANGED <<pagesLeft, pageTexts>>
  /\ UNCHANGED <<cfg, file, settled, result, validation, started,
                 contentReads, ocrCreations, worker, pdfDoc>>
  /\ UNCHANGED <<metaVars, sessionVars>>

\* the finally block of parsePDF (cleanup, destroy) and what follows it
PdfFinally ==
  /\ pc = "pdfFinally"
  /\ pdfDoc' = "destroyed"
  /\ \E destroyed \in Failures \cup {Done} :
       Finish(IF ~destroyed.ok THEN destroyed
              ELSE IF pending # None THEN pending[1]
              ELSE parsePDFText(pageTexts))
  /\ UNCHANGED <<worker, pending, pagesLeft, pageTexts>>

\* createOcrWorker after loadTesseract() and tesseract.createWorker('eng')
OcrWorkerCreated ==
  /\ pc = "createOcrWorker"
  /\ \E outcome \in Failures \cup {Done} :
       IF outcome.ok
       THEN /\ worker' = "running"
            /\ pc' = "recognize"
            /\ contentReads' = contentReads + 1
            /\ UNCHANGED <<cfg, file, settled, result, validation, started,
                           ocrCreations, pdfDoc, pending, pagesLeft, pageTexts>>
            /\ UNCHANGED <<metaVars, sessionVars>>
       ELSE /\ Finish(outcome)
            /\ UNCHANGED extractorVars

\* the try block of parseImage after worker.recognize(file)
OcrRecognized ==
  /\ pc = "recognize"
  /\ \E outcome \in Failures \cup {Returned(None)} \cup {Returned(Some(t)) : t \in Texts} :
       pending' = Some(IF outcome.ok THEN parseImageText(outcome.data[1]) ELSE outcome)
  /\ pc' = "terminate"
  /\ UNCHANGED <<cfg, file, settled, result, validation, started,
                 contentReads, ocrCreations, worker, pdfDoc, pagesLeft, pageTexts>>
  /\ UNCHANGED <<metaVars, sessionVars>>

\* the finally block of parseImage: worker.terminate()
OcrTerminated ==
  /\ pc = "terminate"
  /\ worker' = "terminated"
  /\ \E terminated \in Failures \cup {Done} :
       Finish(IF ~terminated.ok THEN terminated ELSE pending[1])
  /\ UNCHANGED <<pdfDoc, pending, pagesLeft, pageTexts>>

\* nothing has been called yet
Idle ==
  /\ file = None
  /\ pc = "idle"
  /\ settled = "pending"
  /\ result = None
  /\ validation = None
  /\ started = <<>>
  /\ contentReads = 0
  /\ ocrCreations = 0
  /\ worker = "none"
  /\ pdfDoc = "none"
  /\ pending = None
  /\ pagesLeft = 0
  /\ pageTexts = <<>>
  /\ content = None
  /\ fuseHits = <<>>
  /\ meta = None
  /\ mapping = None
  /\ ocrRuntime = None
  /\ app = None
  /\ form = None

\* a parser constructed from some configuration
Init == cfg \in {Constructor(c) : c \in EnhancedFileParserConfig} /\ Idle

Next ==
  \/ ParseCall
  \/ PapaComplete
  \/ PapaError
  \/ ExcelLoaded
  \/ JsonLoaded
  \/ TextLoaded
  \/ PdfOpened
  \/ PdfPage
  \/ PdfFinally
  \/ OcrWorkerCreated
  \/ OcrRecognized
  \/ OcrTerminated

Spec == Init /\ [][Next]_vars

(***************************************************************************)
(* String helpers of the metadata extractor                                *)
(***************************************************************************)
Drop(s, n) == SubSeq(s, n + 1, Len(s))

\* String.prototype.includes
Includes(s, sub) ==
  \E i \in 1..(Len(s) - Len(sub) + 1) : SubSeq(s, i, i + Len(sub) - 1) = sub

\* cleanValue: /\s+/g -> ' ', then /^[:\-\s]+|[:\-\s]+$/g -> '', then trim
cleanValue(value) ==
  LET edge == Whitespace \cup {":", "-"}
      collapsed == Collapse(value, Whitespace, " ", FALSE)
  IN Trim(StripEnd(StripStart(collapsed, edge), edge))

\* s.replace(/\s*[^\w\s,./()'-]+$/g, '').trim(): the trailing run of
\* characters outside the class goes, with the whitespace before it
StripTrailingSymbols(s) ==
  LET kept == WordChars \cup Whitespace \cup {",", ".", "/", "(", ")", "'", "-"}
      last == IF \E i \in 1..Len(s) : s[i] \in kept
              THEN CHOOSE i \in 1..Len(s) :
                     s[i] \in kept /\ \A j \in (i + 1)..Len(s) : s[j] \notin kept
              ELSE 0
  IN IF last < Len(s) THEN Trim(StripEnd(SubSeq(s, 1, last), Whitespace))
     ELSE Trim(s)

\* what \s*(.+)$ captures in the rest of a line: the rest without its leading
\* whitespace, or its last character when nothing else is left; <<>> if none
CaptureRest(rest) ==
  IF rest = <<>> THEN None
  ELSE IF StripStart(rest, Whitespace) # <<>> THEN Some(StripStart(rest, Whitespace))
  ELSE Some(<<rest[Len(rest)]>>)

(***************************************************************************)
(* LINE_PREFIX_PATTERNS                                                    *)
(***************************************************************************)
\* the alternatives of the place pattern, in order; "place\s*name" is two words
PlaceLabels ==
  <<<<Word.place, Word.name>>, <<Word.place>>, <<Word.landmark>>,
    <<Word.monument>>, <<Word.site>>, <<Word.name>>>>

LocationLabels ==
  <<<<Word.location>>, <<Word.city>>, <<Word.state>>, <<Word.country>>,
    <<Word.region>>, <<Word.address>>>>

RECURSIVE AfterLabel(_, _)
\* the line after the words of a label (case-insensitive, \s* between words)
AfterLabel(s, words) ==
  IF words = <<>> THEN Some(s)
  ELSE IF Len(s) >= Len(Head(words))
          /\ SubSeq(ToLowerCase(s), 1, Len(Head(words))) = Head(words)
       THEN AfterLabel(IF Len(words) > 1 THEN StripStart(Drop(s, Len(Head(words))), Whitespace)
                       ELSE Drop(s, Len(Head(words))),
                       Tail(words))
       ELSE None

\* ^label\s*[:\-]\s*(.+)$ for one label: the captured group, or <<>>
LabelCapture(line, words) ==
  LET a == AfterLabel(line, words)
  IN IF a = None THEN None
     ELSE LET r == StripStart(a[1], Whitespace)
          IN IF r = <<>> \/ Head(r) \notin {":", "-"} THEN None
             ELSE CaptureRest(Tail(r))

RECURSIVE PrefixMatch(_, _)
\* line.match(pattern)?.[1] for a pattern with the given label alternatives
PrefixMatch(line, labels) ==
  IF labels = <<>> THEN None
  ELSE IF LabelCapture(line, Head(labels)) # None
       THEN LabelCapture(line, Head(labels))
       ELSE PrefixMatch(line, Tail(labels))

(***************************************************************************)
(* PLACE_LOCATION_INLINE_PATTERN                                           *)
(***************************************************************************)
\* length of the arrow ("->" or the arrow character) at position p, or 0
ArrowAt(s, p) ==
  IF p <= Len(s) /\ s[p] = "→" THEN 1
  ELSE IF p + 1 <= Len(s) /\ s[p] = "-" /\ s[p + 1] = ">" THEN 2
  ELSE 0

RECURSIVE RunLength(_, _, _)
\* number of characters of the class from position p on
RunLength(s, p, class) ==
  IF p <= Len(s) /\ s[p] \in class THEN 1 + RunLength(s, p + 1, class) ELSE 0

RECURSIVE InlineFrom(_, _, _)
\* (.+?)\s*(?:->|arrow)\s*(.+)$ with group 1 starting at start and ending at
\* e or later: <<>> or <<[place, location]>>
InlineFrom(line, start, e) ==
  IF e > Len(line) THEN None
  ELSE LET q == e + 1 + RunLength(line, e + 1, Whitespace)
           a == ArrowAt(line, q)
           rest == CaptureRest(Drop(line, q + a - 1))
       IN IF a > 0 /\ rest # None
          THEN Some([place |-> SubSeq(line, start, e), location |-> rest[1]])
          ELSE InlineFrom(line, start, e + 1)

RECURSIVE InlineAfterOrdinal(_, _, _)
\* the ordinal "\d+\.\s*" taken with k whitespace characters, then fewer
InlineAfterOrdinal(line, dot, k) ==
  IF InlineFrom(line, dot + k + 1, dot + k + 1) # None
  THEN InlineFrom(line, dot + k + 1, dot + k + 1)
  ELSE IF k = 0 THEN None
  ELSE InlineAfterOrdinal(line, dot, k - 1)

\* line.match(PLACE_LOCATION_INLINE_PATTERN): groups 1 and 2, or <<>>
InlineMatch(line) ==
  LET d == RunLength(line, 1, DigitChars)
      withOrdinal ==
        IF d > 0 /\ d + 1 <= Len(line) /\ line[d + 1] = "."
        THEN InlineAfterOrdinal(line, d + 1, RunLength(line, d + 2, Whitespace))
        ELSE None
  IN IF withOrdinal # None THEN withOrdinal ELSE InlineFrom(line, 1, 1)

(***************************************************************************)
(* Field names: aliases, priorities, normalizeFieldName                    *)
(***************************************************************************)
PLACE_ALIASES ==
  <<Word.place, Word.place \o <<"_">> \o Word.name, Word.name, Word.landmark,
    Word.monument, Word.attraction, Word.site, Word.title>>

LOCATION_ALIASES ==
  <<Word.location, Word.city, Word.state, Word.country, Word.region,
    Word.address, Word.loc, Word.area>>

\* variant: the place priorities without 'name'
PLACE_PRIORITY_WithoutName ==
  <<Word.place \o <<"_">> \o Word.name, Word.place, Word.landmark,
    Word.monument, Word.site, Word.title, Word.attraction>>

PLACE_PRIORITY ==
  <<Word.place \o <<"_">> \o Word.name, Word.place, Word.landmark,
    Word.monument, Word.site, Word.name, Word.title, Word.attraction>>

LOCATION_PRIORITY ==
  <<Word.city, Word.location, Word.loc, Word.region, Word.state,
    Word.address, Word.country, Word.area>>

\* normalizeFieldName (FieldMatcher.ts): lower case, /[_\s-]+/g -> '_',
\* /[^a-z0-9_]/g -> '', trim
normalizeFieldName(fieldName) ==
  LET separated == Collapse(ToLowerCase(fieldName), Whitespace \cup {"_", "-"},
                            "_", FALSE)
      kept == {LowerLetters[i] : i \in 1..26} \cup DigitChars \cup {"_"}
  IN Trim(SelectSeq(separated, LAMBDA c : c \in kept))

\* confidences are hundredths: 0.96 is 96
NoMatch == [index |-> -1, confidence |-> 0]

\* array.findIndex(pred), zero-based, -1 when there is none; hit[i] tells
\* whether pred holds of the i-th element
FindIndex(hit) ==
  IF \E i \in 1..Len(hit) : hit[i]
  THEN (CHOOSE i \in 1..Len(hit) : hit[i] /\ \A j \in 1..(i - 1) : ~hit[j]) - 1
  ELSE -1

RECURSIVE PriorityFrom(_, _, _)
\* the loop of findPriorityMatch from priorityIndex p (zero-based) on
PriorityFrom(normalizedHeaders, priorities, p) ==
  IF p >= Len(priorities) THEN NoMatch
  ELSE LET priority == priorities[p + 1]
           n == Len(normalizedHeaders)
           exact == FindIndex([i \in 1..n |-> normalizedHeaders[i] = priority])
           partial == FindIndex([i \in 1..n |->
                                   Includes(normalizedHeaders[i], priority)])
           \* Math.min(priorityIndex * 0.01, 0.1), in hundredths
           penalty == IF p < 10 THEN p ELSE 10
       IN IF exact # -1 THEN [index |-> exact, confidence |-> 96 - penalty]
          ELSE IF partial # -1 THEN [index |-> partial, confidence |-> 88 - penalty]
          ELSE PriorityFrom(normalizedHeaders, priorities, p + 1)

findPriorityMatch(normalizedHeaders, priorities) ==
  PriorityFrom(normalizedHeaders, priorities, 0)

(***************************************************************************)
(* FieldMatcher.matchFields over the answers of fuse.search                *)
(***************************************************************************)
RECURSIVE InsertByConfidence(_, _)
\* where a stable descending sort puts m among already sorted matches
InsertByConfidence(sorted, m) ==
  IF sorted = <<>> THEN <<m>>
  ELSE IF Head(sorted).confidence >= m.confidence
       THEN <<Head(sorted)>> \o InsertByConfidence(Tail(sorted), m)
       ELSE <<m>> \o sorted

RECURSIVE SortByConfidence(_, _)
\* matches.sort((a, b) => b.confidence - a.confidence)
SortByConfidence(matches, sorted) ==
  IF matches = <<>> THEN sorted
  ELSE SortByConfidence(Tail(matches), InsertByConfidence(sorted, Head(matches)))

RECURSIVE CollectMatches(_, _)
\* the loop of matchFields; hits[f] is results[0] of fuse.search(f), if any
CollectMatches(sourceFields, hits) ==
  IF sourceFields = <<>> THEN <<>>
  ELSE LET f == Head(sourceFields)
           rest == CollectMatches(Tail(sourceFields), hits)
       IN IF hits[f] = None THEN rest
          ELSE <<[sourceField |-> f, targetField |-> hits[f][1].target,
                  confidence |-> 100 - hits[f][1].score,
                  score |-> hits[f][1].score]>> \o rest

matchFields(sourceFields, hits) ==
  SortByConfidence(CollectMatches(sourceFields, hits), <<>>)

(***************************************************************************)
(* Table-header strategy                                                   *)
(***************************************************************************)
\* findHeaderMatch: the priority tier, the two alias tiers, then FieldMatcher
findHeaderMatch(headers, aliases, targetField, hits) ==
  LET n == Len(headers)
      normalizedHeaders == [i \in 1..n |-> normalizeFieldName(headers[i])]
      priorityPatterns == IF targetField = "location"
                          THEN LOCATION_PRIORITY ELSE PLACE_PRIORITY
      preferredMatch == findPriorityMatch(normalizedHeaders, priorityPatterns)
      aliasExact ==
        FindIndex([i \in 1..n |->
                     \E k \in 1..Len(aliases) : normalizedHeaders[i] = aliases[k]])
      aliasPartial ==
        FindIndex([i \in 1..n |->
                     \E k \in 1..Len(aliases) :
                       Includes(normalizedHeaders[i], aliases[k])])
      matches == matchFields(headers, hits)
      b == FindIndex([i \in 1..Len(matches) |->
                        matches[i].targetField = targetField])
  IN IF preferredMatch.index # -1 THEN preferredMatch
     ELSE IF aliasExact # -1 THEN [index |-> aliasExact, confidence |-> 95]
     ELSE IF aliasPartial # -1 THEN [index |-> aliasPartial, confidence |-> 82]
     ELSE IF b = -1 \/ matches[b + 1].confidence < 55 THEN NoMatch
     ELSE [index |-> FindIndex([i \in 1..n |->
                                  headers[i] = matches[b + 1].sourceField]),
           confidence |-> matches[b + 1].confidence]

\* nonEmptyValueCount(row)
nonEmptyValueCount(row) ==
  Cardinality({j \in 1..Len(row) : Trim(StringOrEmpty(row[j])) # <<>>})

\* variant: among the rows with the greatest count the last one is taken
getBestDataRowLastOfTies(rows) ==
  IF Len(rows) = 1 THEN rows[1]
  ELSE rows[CHOOSE i \in 1..Len(rows) :
              /\ \A j \in 1..Len(rows) :
                   nonEmptyValueCount(rows[j]) <= nonEmptyValueCount(rows[i])
              /\ \A j \in (i + 1)..Len(rows) :
                   nonEmptyValueCount(rows[j]) < nonEmptyValueCount(rows[i])]

\* getBestDataRow(rows), for a non-empty rows: element 0 of the rows sorted
\* by descending count; the sort is stable, so that is the first of the rows
\* with the greatest count
getBestDataRow(rows) ==
  IF Len(rows) = 1 THEN rows[1]
  ELSE rows[CHOOSE i \in 1..Len(rows) :
              /\ \A j \in 1..Len(rows) :
                   nonEmptyValueCount(rows[j]) <= nonEmptyValueCount(rows[i])
              /\ \A j \in 1..(i - 1) :
                   nonEmptyValueCount(rows[j]) < nonEmptyValueCount(rows[i])]

\* readValueFromRow(row, index) with a zero-based index
readValueFromRow(row, index) ==
  IF index < 0 \/ index >= Len(row) THEN <<>>
  ELSE cleanValue(StringOrEmpty(row[index + 1]))

MetadataExtractionResult(placeName, location, placeConfidence, locationConfidence) ==
  [placeName |-> placeName, location |-> location,
   placeConfidence |-> placeConfidence, locationConfidence |-> locationConfidence]

emptyResult == MetadataExtractionResult(<<>>, <<>>, 0, 0)

\* variant: the confidence is reported whatever the value
ConfidenceAlways(value, confidence) == confidence

\* value ? confidence : 0
ConfidenceIfValue(value, confidence) == IF value # <<>> THEN confidence ELSE 0

extractFromTableData(data, hits) ==
  IF Len(data.headers) = 0 \/ Len(data.rows) = 0 THEN emptyResult
  ELSE LET row == getBestDataRow(data.rows)
           placeMatch == findHeaderMatch(data.headers, PLACE_ALIASES, "placeName", hits)
           locationMatch == findHeaderMatch(data.headers, LOCATION_ALIASES, "location", hits)
           placeName == readValueFromRow(row, placeMatch.index)
           location == readValueFromRow(row, locationMatch.index)
       IN MetadataExtractionResult(
            placeName, location,
            ConfidenceIfValue(placeName, placeMatch.confidence),
            ConfidenceIfValue(location, locationMatch.confidence))

(***************************************************************************)
(* Text-pattern strategy                                                   *)
(***************************************************************************)
isLikelyPlaceName(line) ==
  IF line = <<>> \/ Len(line) < 3 \/ Len(line) > 120
  THEN FALSE
  ELSE LET lower == ToLowerCase(line)
           digits == Cardinality({i \in 1..Len(line) : line[i] \in DigitChars})
       IN IF Includes(lower, Word.location) \/ Includes(lower, Word.address)
             \/ Includes(lower, Word.city)
          THEN FALSE
          ELSE digits * 5 < Len(line)      \* digits / length < 0.2

isLikelyLocation(line) ==
  LET lower == ToLowerCase(line)
      \* /\b[a-z]{2}\b/i.test(line)
      HasTwoLetterToken ==
        \E i \in 1..(Len(line) - 1) :
          /\ line[i] \in Letters /\ line[i + 1] \in Letters
          /\ (i = 1 \/ line[i - 1] \notin WordChars)
          /\ (i + 1 = Len(line) \/ line[i + 2] \notin WordChars)
  IN \/ Includes(lower, <<",">>)
     \/ Includes(lower, Word.city)
     \/ Includes(lower, Word.state)
     \/ Includes(lower, Word.country)
     \/ Includes(lower, Word.region)
     \/ HasTwoLetterToken

\* the statements after the loop of extractFromText: lines.find(...) for each
\* field that is still empty, with confidence 0.55
textFallbacks(lines, st) ==
  LET likelyPlace == FindIndex([i \in 1..Len(lines) |-> isLikelyPlaceName(lines[i])])
      likelyLocation == FindIndex([i \in 1..Len(lines) |-> isLikelyLocation(lines[i])])
      usePlace == st.placeName = <<>> /\ likelyPlace # -1
      useLocation == st.location = <<>> /\ likelyLocation # -1
  IN MetadataExtractionResult(
       IF usePlace THEN cleanValue(lines[likelyPlace + 1]) ELSE st.placeName,
       IF useLocation THEN cleanValue(lines[likelyLocation + 1]) ELSE st.location,
       IF usePlace THEN 55 ELSE st.placeConfidence,
       IF useLocation THEN 55 ELSE st.locationConfidence)

\* variant: a labelled line replaces what an earlier labelled line gave
scanLabelsLastWins(line, st) ==
  LET placeMatch == PrefixMatch(line, PlaceLabels)
      locationMatch == PrefixMatch(line, LocationLabels)
      placeName == IF placeMatch # None THEN cleanValue(placeMatch[1]) ELSE st.placeName
      location == IF locationMatch # None
                  THEN cleanValue(locationMatch[1]) ELSE st.location
  IN MetadataExtractionResult(
       placeName, location,
       IF placeMatch # None THEN ConfidenceIfValue(placeName, 90)
       ELSE st.placeConfidence,
       IF locationMatch # None THEN ConfidenceIfValue(location, 90)
       ELSE st.locationConfidence)

\* one turn of the loop of extractFromText on a line without an accepted
\* inline match: the labelled place and the labelled location
scanLabels(line, st) ==
  LET placeMatch == IF st.placeName = <<>> THEN PrefixMatch(line, PlaceLabels) ELSE None
      locationMatch == IF st.location = <<>>
                       THEN PrefixMatch(line, LocationLabels) ELSE None
      placeName == IF placeMatch # None THEN cleanValue(placeMatch[1]) ELSE st.placeName
      location == IF locationMatch # None
                  THEN cleanValue(locationMatch[1]) ELSE st.location
  IN MetadataExtractionResult(
       placeName, location,
       IF placeMatch # None THEN ConfidenceIfValue(placeName, 90)
       ELSE st.placeConfidence,
       IF locationMatch # None THEN ConfidenceIfValue(location, 90)
       ELSE st.locationConfidence)

\* the inline match of a line, cleaned: <<>> unless both sides are non-empty
inlineResult(line) ==
  LET m == InlineMatch(line)
  IN IF m = None THEN None
     ELSE LET inlinePlace == cleanValue(m[1].place)
              inlineLocation == StripTrailingSymbols(cleanValue(m[1].location))
          IN IF inlinePlace # <<>> /\ inlineLocation # <<>>
             THEN Some(MetadataExtractionResult(inlinePlace, inlineLocation, 88, 88))
             ELSE None

RECURSIVE scanLines(_, _, _)
\* variant: an arrow line fills only the fields that are still empty
scanLinesKeepingFinds(lines, i, st) ==
  IF i > Len(lines) THEN textFallbacks(lines, st)
  ELSE IF inlineResult(lines[i]) # None
  THEN MetadataExtractionResult(
         IF st.placeName # <<>> THEN st.placeName
         ELSE inlineResult(lines[i])[1].placeName,
         IF st.location # <<>> THEN st.location
         ELSE inlineResult(lines[i])[1].location,
         IF st.placeName # <<>> THEN st.placeConfidence ELSE 88,
         IF st.location # <<>> THEN st.locationConfidence ELSE 88)
  ELSE LET next == scanLabels(lines[i], st)
       IN IF next.placeName # <<>> /\ next.location # <<>>
          THEN textFallbacks(lines, next)
          ELSE scanLines(lines, i + 1, next)

\* the loop of extractFromText from line i on, then the fallbacks
scanLines(lines, i, st) ==
  IF i > Len(lines) THEN textFallbacks(lines, st)
  ELSE IF inlineResult(lines[i]) # None THEN inlineResult(lines[i])[1]
  ELSE LET next == scanLabels(lines[i], st)
       IN IF next.placeName # <<>> /\ next.location # <<>>
          THEN textFallbacks(lines, next)
          ELSE scanLines(lines, i + 1, next)

extractFromText(text) == scanLines(NonBlankLines(text), 1, emptyResult)

(***************************************************************************)
(* extractMetadataFromContent                                              *)
(***************************************************************************)
\* extractFromObject(record) for a record that is not null
extractFromObject(record, hits) ==
  LET headers == ObjectKeys(record)
      row == [j \in 1..Len(headers) |-> Index(record, headers[j])]
  IN extractFromTableData(
       ParsedTableData(headers, <<row>>, 1, Len(headers), "json", None), hits)

\* variant: only the cells of the first row are joined
flattenedTextFirstRow(rows) ==
  LET cells == IF rows = <<>> THEN <<>> ELSE rows[1]
      texts == [i \in 1..Len(cells) |-> Trim(StringOrEmpty(cells[i]))]
  IN Join(SelectSeq(texts, LAMBDA t : t # <<>>), <<"\n">>)

\* content.rows.flat().map(v => String(v ?? '').trim()).filter(Boolean).join('\n')
flattenedText(rows) ==
  LET cells == Concat(rows)
      texts == [i \in 1..Len(cells) |-> Trim(StringOrEmpty(cells[i]))]
  IN Join(SelectSeq(texts, LAMBDA t : t # <<>>), <<"\n">>)

\* what a call gave: a result, or an exception
Gave(r) == [threw |-> FALSE, value |-> Some(r)]

Raised == [threw |-> TRUE, value |-> None]

\* content is [kind |-> "table", table |-> ParsedTableData] for an object
\* with headers and rows arrays, else [kind |-> "value", value |-> Value]
extractMetadataFromContent(c, hits) ==
  IF c.kind = "table"
  THEN LET tableResult == extractFromTableData(c.table, hits)
       IN IF tableResult.placeName # <<>> \/ tableResult.location # <<>>
          THEN Gave(tableResult)
          ELSE IF c.table.ocrText # None /\ c.table.ocrText[1] # <<>>
          THEN Gave(extractFromText(c.table.ocrText[1]))
          ELSE Gave(extractFromText(flattenedText(c.table.rows)))
  ELSE LET v == c.value
       IN IF v.t = "string" THEN Gave(extractFromText(v.v))
          ELSE IF IsArrayOfObjects(v)
          THEN (IF v.items[1].t = "null" THEN Raised
                ELSE Gave(extractFromObject(v.items[1], hits)))
          ELSE IF v.t \in {"array", "object"} THEN Gave(extractFromObject(v, hits))
          ELSE Gave(emptyResult)

(***************************************************************************)
(* Inputs of extractMetadataFromContent                                    *)
(***************************************************************************)
\* tables: headers that equal a priority name, contain one, or match none;
\* rows with filled, empty and missing cells
MetaTables ==
  LET MetaHeaders ==
        {<<"P", "l", "a", "c", "e", " ", "N", "a", "m", "e">>,
         <<"L", "o", "c">>,
         <<"c", "i", "t", "y", " ", "n", "a", "m", "e">>,
         <<"z", "z">>}
      MetaRows ==
        {<<Str(<<"a", "b">>), Str(<<"c", "d">>)>>, <<Null, Str(<<" ", "-", " ">>)>>,
         <<Str(<<"1", ".", " ", "a", "b", " ", "-", ">", " ", "c", "d">>)>>, <<>>}
  IN {ParsedTableData(h, r, Len(r), Len(h), "csv", o) :
        h \in SeqsUpTo(MetaHeaders, MaxHeaders), r \in SeqsUpTo(MetaRows, MaxRows),
        o \in {None, Some(<<"C", "i", "t", "y", " ", "-", " ", "c", "d">>)}}

\* other contents; free text is made of lines of plain words, labelled lines,
\* arrow lines, and lines of separators or digits only
MetaValues ==
  LET MetaLines ==
        {<<"-", "-", "-">>,
         <<"a", "b", "c">>,
         <<"a", "b">>,
         <<"a", "b", ",", " ", "c", "d">>,
         <<"P", "l", "a", "c", "e", " ", "N", "a", "m", "e", ":", " ", "a", "b">>,
         <<"n", "a", "m", "e", ":", " ", "-">>,
         <<"l", "o", "c", "a", "t", "i", "o", "n", ":", " ", "-">>,
         <<"C", "i", "t", "y", " ", "-", " ", "c", "d">>,
         <<"1", ".", " ", "a", "b", " ", "-", ">", " ", "c", "d">>,
         <<"-", " ", "-", ">", " ", "c", "d">>,
         <<"a", "b", "→", "c", "d", "!">>,
         <<"1", "2", "3", "4", "5">>,
         <<"s", "i", "t", "e", ":", " ", "x", "y">>}
      \* both fields labelled before an arrow line
      LabelledThenArrow ==
        <<<<"s", "i", "t", "e", ":", " ", "x", "y">>,
          <<"C", "i", "t", "y", " ", "-", " ", "c", "d">>,
          <<"1", ".", " ", "a", "b", " ", "-", ">", " ", "c", "d">>>>
      MetaRecord ==
        Obj(<<Word.place, Word.city>>, <<Str(<<"a", "b">>), Str(<<"c", "d">>)>>)
  IN {Null, Undefined, Num(<<"1">>), True, Arr(<<>>), Arr(<<Null>>),
      Arr(<<Num(<<"1">>)>>), Arr(<<MetaRecord, Null>>), MetaRecord,
      Obj(<<Word.unknown>>, <<True>>),
      Obj(<<Word.name, Word.unknown>>, <<Obj(<<>>, <<>>), Null>>)}
       \cup {Str(Join(ls, <<"\n">>)) :
               ls \in SeqsUpTo(MetaLines, MaxLines) \cup {LabelledThenArrow}}

MetaContents ==
  {[kind |-> "table", table |-> t, value |-> Undefined] : t \in MetaTables}
    \cup {[kind |-> "value",
           table |-> ParsedTableData(<<>>, <<>>, 0, 0, "csv", None),
           value |-> v] : v \in MetaValues}

\* results[0] of fuse.search, if any: an item of the matcher and its score in
\* hundredths, on either side of the score that gives confidence 0.55
FuseHits ==
  {None} \cup {Some([target |-> t, score |-> n]) :
                 t \in {"placeName", "location"}, n \in {45, 46}}

\* the field names the matcher can be asked about for a content
SourceFields(c) ==
  LET fields ==
        IF c.kind = "table" THEN c.table.headers
        ELSE IF c.value.t = "array" /\ Len(c.value.items) > 0
                /\ c.value.items[1].t \in {"array", "object"}
        THEN ObjectKeys(c.value.items[1])
        ELSE IF c.value.t \in {"array", "object"} THEN ObjectKeys(c.value)
        ELSE <<>>
  IN {fields[i] : i \in 1..Len(fields)}

(***************************************************************************)
(* The metadata extractor as a system: one call on one content             *)
(***************************************************************************)
\* extractMetadataFromContent(content) is called once
ExtractCall ==
  /\ content = None
  /\ \E c \in MetaContents : \E hits \in [SourceFields(c) -> FuseHits] :
       /\ content' = Some(c)
       /\ fuseHits' = hits
       /\ meta' = Some(extractMetadataFromContent(c, hits))
  /\ UNCHANGED <<parseVars, sessionVars, mapping>>

\* the parser plays no part in the calls of extractMetadataFromContent
MetaInit ==
  cfg = Constructor([supportedFormats |-> <<>>, maxFileSize |-> None]) /\ Idle

MetaNext == ExtractCall

SpecMeta == MetaInit /\ [][MetaNext]_vars

(***************************************************************************)
(* FieldMatcher.autoMap                                                    *)
(***************************************************************************)
\* variant: only matches strictly above the threshold are kept
autoMapStrict(sourceFields, hits, minConfidence) ==
  LET matches == matchFields(sourceFields, hits)
      kept == {i \in 1..Len(matches) : matches[i].confidence > minConfidence}
  IN [f \in {matches[i].sourceField : i \in kept} |->
        matches[CHOOSE i \in kept :
                  /\ matches[i].sourceField = f
                  /\ \A j \in kept : matches[j].sourceField = f => j <= i].targetField]

\* autoMap(sourceFields, minConfidence): the Map as a function from its keys;
\* mapping.set of a key that is already there replaces its value
autoMap(sourceFields, hits, minConfidence) ==
  LET matches == matchFields(sourceFields, hits)
      kept == {i \in 1..Len(matches) : matches[i].confidence >= minConfidence}
  IN [f \in {matches[i].sourceField : i \in kept} |->
        matches[CHOOSE i \in kept :
                  /\ matches[i].sourceField = f
                  /\ \A j \in kept : matches[j].sourceField = f => j <= i].targetField]

\* autoMap is called once on the matcher of the extractor's two target
\* fields: with the default threshold 0.6 or with 0.8, on field names for
\* which fuse.search answers nothing or an item with a score within the
\* matcher's threshold 0.4
AutoMapCall ==
  /\ mapping = None
  /\ LET names == {<<"z", "z">>, Word.city, Word.name}
         answers == {None} \cup {Some([target |-> t, score |-> n]) :
                                   t \in {"placeName", "location"},
                                   n \in {0, 20, 21, 40}}
     IN \E sourceFields \in SeqsUpTo(names, MaxFields) :
          \E hits \in [{sourceFields[i] : i \in 1..Len(sourceFields)} -> answers] :
            \E minConfidence \in {60, 80} :
              /\ fuseHits' = hits
              /\ mapping' = Some([sourceFields |-> sourceFields,
                                  minConfidence |-> minConfidence,
                                  map |-> autoMap(sourceFields, hits, minConfidence)])
  /\ UNCHANGED <<parseVars, sessionVars, content, meta>>

SpecMatcher == MetaInit /\ [][AutoMapCall]_vars

(***************************************************************************)
(* validate called on its own                                              *)
(***************************************************************************)
\* validate(file) is called once, with sizes on either side of each limit
\* a parser can have
ValidateCall ==
  /\ pc = "idle"
  /\ \E f \in File, limit \in {cfg.maxFileSize, 10 * 1024 * 1024}, d \in -1..1 :
       LET g == [f EXCEPT !.size = limit + d]
           v == validate(cfg, g)
       IN /\ f.size = 0 /\ g.size >= 0
          /\ file' = Some(g)
          /\ validation' = IF v.threw THEN None ELSE Some(v)
  /\ pc' = "validated"
  /\ UNCHANGED <<cfg, settled, result, started, contentReads, ocrCreations,
                 worker, pdfDoc, pending, pagesLeft, pageTexts>>
  /\ UNCHANGED <<metaVars, sessionVars>>

SpecValidate == Init /\ [][ValidateCall]_vars

(***************************************************************************)
(* Image parses sharing the OCR runtime of one page                        *)
(***************************************************************************)
\* variant: the script is appended without looking at tesseractLoaderPromise
loadTesseractUngated(rt) ==
  IF rt.tesseract THEN [rt |-> rt, via |-> "window", appended |-> FALSE]
  ELSE [rt |-> [rt EXCEPT !.loader = "pending", !.scripts = @ + 1],
        via |-> "loader", appended |-> TRUE]

\* loadTesseract() up to its return: window.Tesseract when createWorker is
\* present, else the static tesseractLoaderPromise, created with its script
\* element when it is still null
loadTesseract(rt) ==
  IF rt.tesseract THEN [rt |-> rt, via |-> "window", appended |-> FALSE]
  ELSE IF rt.loader = "null"
  THEN [rt |-> [rt EXCEPT !.loader = "pending", !.scripts = @ + 1],
        via |-> "loader", appended |-> TRUE]
  ELSE [rt |-> rt, via |-> "loader", appended |-> FALSE]

\* a page is loaded: Tesseract may already be on window, and the CDN is
\* reachable ("up"), unreachable ("down") or serves a script without
\* createWorker ("bad")
PageLoad ==
  /\ ocrRuntime = None
  /\ \E present \in BOOLEAN, cdn \in {"up", "down", "bad"} :
       ocrRuntime' = Some([tesseract |-> present, loader |-> "null", scripts |-> 0,
                           cdn |-> cdn, calls |-> <<>>, workers |-> <<>>])
  /\ UNCHANGED <<parseVars, metaVars, app, form>>

\* the CDN becomes reachable and stays so
CdnRecovers ==
  /\ ocrRuntime # None /\ ocrRuntime[1].cdn # "up"
  /\ ocrRuntime' = Some([ocrRuntime[1] EXCEPT !.cdn = "up"])
  /\ UNCHANGED <<parseVars, metaVars, app, form>>

\* parse(file) of a valid image, on any parser instance, up to the await of
\* loadTesseract() in createOcrWorker
ImageParseCall ==
  /\ ocrRuntime # None /\ Len(ocrRuntime[1].calls) < MaxCalls
  /\ LET rt == ocrRuntime[1]
         l == loadTesseract(rt)
     IN ocrRuntime' =
          Some([l.rt EXCEPT !.calls =
                  Append(@, [pc |-> "load", via |-> l.via, appended |-> l.appended,
                             present |-> rt.tesseract, cdnAtCall |-> rt.cdn,
                             worker |-> 0, pending |-> "none",
                             outcome |-> "pending"])])
  /\ UNCHANGED <<parseVars, metaVars, app, form>>

\* script.onload or script.onerror settles tesseractLoaderPromise
ScriptSettled ==
  /\ ocrRuntime # None /\ ocrRuntime[1].loader = "pending"
  /\ ocrRuntime' =
       Some(IF ocrRuntime[1].cdn = "up"
            THEN [ocrRuntime[1] EXCEPT !.tesseract = TRUE, !.loader = "resolved"]
            ELSE [ocrRuntime[1] EXCEPT !.loader = "rejected"])
  /\ UNCHANGED <<parseVars, metaVars, app, form>>

\* createOcrWorker after the await of loadTesseract(): the loader promise
\* rejected, or tesseract.createWorker('eng') throws or gives a new worker
WorkerCreated ==
  /\ ocrRuntime # None
  /\ \E i \in 1..Len(ocrRuntime[1].calls), created \in BOOLEAN :
       LET rt == ocrRuntime[1]
           call == rt.calls[i]
       IN /\ call.pc = "load"
          /\ call.via = "window" \/ rt.loader \in {"resolved", "rejected"}
          /\ ocrRuntime' =
               Some(IF call.via = "loader" /\ rt.loader = "rejected"
                    THEN [rt EXCEPT !.calls[i].pc = "done",
                                    !.calls[i].outcome = "load failed"]
                    ELSE IF ~created
                    THEN [rt EXCEPT !.calls[i].pc = "done",
                                    !.calls[i].outcome = "createWorker failed"]
                    ELSE [rt EXCEPT !.calls[i].pc = "recognize",
                                    !.calls[i].worker = Len(rt.workers) + 1,
                                    !.workers = Append(@, [owner |-> i,
                                                           recognitions |-> 0,
                                                           terminations |-> 0])])
  /\ UNCHANGED <<parseVars, metaVars, app, form>>

\* variant: parseImage without try/finally, a failed recognition ends the
\* parse at once
WorkerRecognizedNoFinally ==
  /\ ocrRuntime # None
  /\ \E i \in 1..Len(ocrRuntime[1].calls),
        answer \in {"success", "no text", "recognize failed"} :
       LET rt == ocrRuntime[1]
           w == rt.calls[i].worker
       IN /\ rt.calls[i].pc = "recognize"
          /\ ocrRuntime' =
               Some(IF answer = "success"
                    THEN [rt EXCEPT !.calls[i].pc = "terminate",
                                    !.calls[i].pending = answer,
                                    !.workers[w].recognitions = @ + 1]
                    ELSE [rt EXCEPT !.calls[i].pc = "done",
                                    !.calls[i].outcome = answer,
                                    !.workers[w].recognitions = @ + 1])
  /\ UNCHANGED <<parseVars, metaVars, app, form>>

\* the try block of parseImage: worker.recognize(file) gave text, gave no
\* text or threw; the finally block comes next in every case
WorkerRecognized ==
  /\ ocrRuntime # None
  /\ \E i \in 1..Len(ocrRuntime[1].calls),
        answer \in {"success", "no text", "recognize failed"} :
       LET rt == ocrRuntime[1]
           w == rt.calls[i].worker
       IN /\ rt.calls[i].pc = "recognize"
          /\ ocrRuntime' =
               Some([rt EXCEPT !.calls[i].pc = "terminate",
                               !.calls[i].pending = answer,
                               !.workers[w].recognitions = @ + 1])
  /\ UNCHANGED <<parseVars, metaVars, app, form>>

\* the finally block of parseImage: worker.terminate(), which may throw, and
\* the end of the parse
WorkerTerminated ==
  /\ ocrRuntime # None
  /\ \E i \in 1..Len(ocrRuntime[1].calls), terminated \in BOOLEAN :
       LET rt == ocrRuntime[1]
           w == rt.calls[i].worker
       IN /\ rt.calls[i].pc = "terminate"
          /\ ocrRuntime' =
               Some([rt EXCEPT !.calls[i].pc = "done",
                               !.calls[i].outcome =
                                  IF terminated THEN rt.calls[i].pending
                                  ELSE "terminate failed",
                               !.workers[w].terminations = @ + 1])
  /\ UNCHANGED <<parseVars, metaVars, app, form>>

SpecOcr ==
  MetaInit /\ [][PageLoad \/ CdnRecovers \/ ImageParseCall \/ ScriptSettled
                  \/ WorkerCreated \/ WorkerRecognized \/ WorkerTerminated]_vars

(***************************************************************************)
(* The demo App: one upload session                                        *)
(***************************************************************************)
\* the first render of App: the initial values of its useState hooks. Files
\* are numbered in the order of their selection, 0 standing for null;
\* parsedData and initialMetadata hold the number of the file they were
\* computed from; parsing is the set of files whose parse is awaited.
AppRender ==
  /\ app = None
  /\ app' = Some([selectedFile |-> 0, parsedData |-> 0, isParsing |-> FALSE,
                  parseError |-> "null", initialMetadata |-> 0,
                  isSubmitted |-> FALSE, selections |-> 0, parsing |-> {}])
  /\ UNCHANGED <<parseVars, metaVars, ocrRuntime, form>>

\* handleFileSelected(file) up to the await of parser.parse(file)
handleFileSelected ==
  /\ app # None /\ app[1].selections < MaxSelections
  /\ LET n == app[1].selections + 1
     IN app' = Some([app[1] EXCEPT !.selectedFile = n, !.parsedData = 0,
                                    !.parseError = "null", !.initialMetadata = 0,
                                    !.isSubmitted = FALSE, !.isParsing = TRUE,
                                    !.selections = n, !.parsing = @ \cup {n}])
  /\ UNCHANGED <<parseVars, metaVars, ocrRuntime, form>>

\* handleFileSelected(file) after the await: the parse of one of the awaited
\* files resolved, to a failure or to a success, and the finally block ran
ParseSettled ==
  /\ app # None
  /\ \E n \in app[1].parsing, success \in BOOLEAN :
       app' = Some(IF success
                   THEN [app[1] EXCEPT !.parsedData = n, !.initialMetadata = n,
                                       !.isParsing = FALSE, !.parsing = @ \ {n}]
                   ELSE [app[1] EXCEPT !.parseError = "parse",
                                       !.isParsing = FALSE, !.parsing = @ \ {n}])
  /\ UNCHANGED <<parseVars, metaVars, ocrRuntime, form>>

\* handleUploadError(error)
handleUploadError ==
  /\ app # None
  /\ app' = Some([app[1] EXCEPT !.parseError = "upload", !.isSubmitted = FALSE])
  /\ UNCHANGED <<parseVars, metaVars, ocrRuntime, form>>

\* handleMetadataSubmit(metadata), called by the MetadataForm that is
\* rendered while initialMetadata is set
handleMetadataSubmit ==
  /\ app # None /\ app[1].initialMetadata # 0
  /\ app' = Some(IF app[1].selectedFile = 0 \/ app[1].parsedData = 0 THEN app[1]
                 ELSE [app[1] EXCEPT !.isSubmitted = TRUE])
  /\ UNCHANGED <<parseVars, metaVars, ocrRuntime, form>>

SpecApp ==
  MetaInit /\ [][AppRender \/ handleFileSelected \/ ParseSettled
                  \/ handleUploadError \/ handleMetadataSubmit]_vars

(***************************************************************************)
(* The MetadataForm component                                              *)
(***************************************************************************)
\* FormData: the values a field can hold are empty, blank, a word, and a
\* word between spaces
FormData ==
  LET values == {<<>>, <<" ">>, <<"a">>, <<" ", "a", " ">>}
  IN [placeName : values, location : values]

\* variant: the value is tested without being trimmed
validateFieldUntrimmed(field, value) ==
  IF value = <<>>
  THEN Some(IF field = "placeName" THEN "Place name is required"
            ELSE "Location is required")
  ELSE None

\* validateField(field, value): the error message, or <<>> for null
validateField(field, value) ==
  IF Trim(value) = <<>>
  THEN Some(IF field = "placeName" THEN "Place name is required"
            ELSE "Location is required")
  ELSE None

\* isFormValid(), errors being the keys of the errors map
isFormValid(formData, errors) ==
  Trim(formData.placeName) # <<>> /\ Trim(formData.location) # <<>> /\ errors = {}

\* the first render of MetadataForm: a missing initialValues, and a missing
\* field of it, give the empty string
FormMounted ==
  /\ form = None
  /\ \E initialValues \in FormData, disabled \in BOOLEAN :
       form' = Some([formData |-> initialValues, errors |-> {}, touched |-> {},
                     isSubmitting |-> FALSE, disabled |-> disabled,
                     awaited |-> 0, attempt |-> None])
  /\ UNCHANGED <<parseVars, metaVars, ocrRuntime, app>>

\* the effect on initialValues: the parent passes new initial values
InitialValuesChanged ==
  /\ form # None
  /\ \E initialValues \in FormData :
       form' = Some([form[1] EXCEPT !.formData = initialValues])
  /\ UNCHANGED <<parseVars, metaVars, ocrRuntime, app>>

\* handleInputChange: the user types in a field, which an input that is
\* disabled does not allow
handleInputChange ==
  /\ form # None /\ ~form[1].disabled /\ ~form[1].isSubmitting
  /\ \E name \in {"placeName", "location"}, typed \in FormData :
       form' = Some([form[1] EXCEPT !.formData[name] = typed[name],
                                     !.errors = @ \ {name}])
  /\ UNCHANGED <<parseVars, metaVars, ocrRuntime, app>>

\* handleBlur(field)
handleBlur ==
  /\ form # None /\ ~form[1].disabled /\ ~form[1].isSubmitting
  /\ \E field \in {"placeName", "location"} :
       form' = Some([form[1] EXCEPT
                       !.touched = @ \cup {field},
                       !.errors = IF validateField(field, form[1].formData[field]) # None
                                  THEN @ \cup {field} ELSE @])
  /\ UNCHANGED <<parseVars, metaVars, ocrRuntime, app>>

\* handleSubmit(e) up to its return or to the await of onSubmit, with
\* validateForm; attempt records the data of the attempt and the callbacks
\* it called
handleSubmit ==
  /\ form # None /\ form[1].awaited < MaxPending
  /\ LET formData == form[1].formData
         validationErrors ==
           SelectSeq(<<[field |-> "placeName",
                        message |-> validateField("placeName", formData.placeName)],
                       [field |-> "location",
                        message |-> validateField("location", formData.location)]>>,
                     LAMBDA e : e.message # None)
         newErrors == {validationErrors[i].field : i \in 1..Len(validationErrors)}
         trimmedData == [placeName |-> Trim(formData.placeName),
                         location |-> Trim(formData.location)]
     IN form' =
          Some(IF validationErrors # <<>>
               THEN [form[1] EXCEPT
                       !.touched = {"placeName", "location"}, !.errors = newErrors,
                       !.attempt = Some([formData |-> formData,
                                         calls |-> <<[fn |-> "onValidationError",
                                                      arg |-> validationErrors]>>])]
               ELSE [form[1] EXCEPT
                       !.touched = {"placeName", "location"}, !.errors = newErrors,
                       !.isSubmitting = TRUE, !.awaited = @ + 1,
                       !.attempt = Some([formData |-> formData,
                                         calls |-> <<[fn |-> "onSubmit",
                                                      arg |-> trimmedData]>>])])
  /\ UNCHANGED <<parseVars, metaVars, ocrRuntime, app>>

\* the finally block of handleSubmit, once onSubmit has returned or thrown
SubmitSettled ==
  /\ form # None /\ form[1].awaited > 0
  /\ form' = Some([form[1] EXCEPT !.isSubmitting = FALSE, !.awaited = @ - 1])
  /\ UNCHANGED <<parseVars, metaVars, ocrRuntime, app>>

SpecForm ==
  MetaInit /\ [][FormMounted \/ InitialValuesChanged \/ handleInputChange
                  \/ handleBlur \/ handleSubmit \/ SubmitSettled]_vars

(***************************************************************************)
(* Properties of EnhancedFileParser                                        *)
(***************************************************************************)
\* C1: parse never rejects or throws: the promise is never rejected, an
\* invocation that has ended has resolved to a ParseResult, and every
\* failure result carries code VALIDATION_ERROR or PARSE_ERROR.
ParseNeverRejects ==
  /\ settled # "rejected"
  /\ pc = "done" => (settled = "resolved" /\ result # None)
  /\ (result # None /\ ~result[1].success) =>
       /\ result[1].error # None
       /\ result[1].error[1].code \in {"VALIDATION_ERROR", "PARSE_ERROR"}

\* a format's validator raised inside validate and parse still resolved
ValidatorThrowCaught ==
  /\ pc = "done" /\ settled = "resolved"
  /\ validate(cfg, file[1]).threw
  /\ result[1].error[1].code = "PARSE_ERROR"

\* C2: every ParseResult is exactly one of the two variants: success with
\* content and without error, or failure with error and without content.
ResultIsTaggedUnion ==
  result # None =>
    \/ result[1].success /\ result[1].content # None /\ result[1].error = None
    \/ ~result[1].success /\ result[1].error # None /\ result[1].content = None

\* an extractor was entered, read the file and failed
ExtractorFailed ==
  /\ pc = "done" /\ started # <<>> /\ contentReads = 1
  /\ result # None /\ ~result[1].success

\* C3: when validate reports the file invalid, parse returns a failure with
\* code VALIDATION_ERROR whose message is the errors joined with "; ", and
\* no extractor, no read of the file and no OCR worker creation is started.
ValidationPrecedesExtraction ==
  validation # None /\ ~validation[1].isValid =>
    LET errors == validation[1].errors
        message == result[1].error[1].message
    IN /\ pc = "done" /\ result # None /\ ~result[1].success
       /\ result[1].error[1].code = "VALIDATION_ERROR"
       /\ Len(message) = 2 * Len(errors) - 1
       /\ \A i \in 1..Len(errors) : message[2 * i - 1] = errors[i]
       /\ \A i \in 1..(Len(errors) - 1) : message[2 * i] = Piece("; ", <<>>)
       /\ started = <<>> /\ contentReads = 0 /\ ocrCreations = 0
       /\ worker = "none" /\ pdfDoc = "none"

\* a 0-byte file of an unsupported format was rejected with two errors
EmptyFileRejected ==
  /\ pc = "done" /\ file[1].size = 0
  /\ validation # None /\ Len(validation[1].errors) = 2
  /\ result[1].error[1].code = "VALIDATION_ERROR"
  /\ started = <<>>

\* C4: validate is not fail-fast: the size, empty-file and format checks all
\* run, each failed check contributes one error (size or empty first, format
\* after), an oversized file of an unsupported format yields exactly two
\* errors, and isValid is true exactly when there is no error.
ValidateAccumulates ==
  validation # None =>
    LET v == validation[1]
        oversized == file[1].size > cfg.maxFileSize
        empty == file[1].size = 0
        unsupported == FindFormat(cfg.supportedFormats, file[1]) = "nomatch"
        expected ==
          (IF oversized
           THEN <<"File size (%1MB) exceeds maximum allowed size of %2MB">>
           ELSE <<>>)
            \o (IF empty THEN <<"File is empty">> ELSE <<>>)
            \o (IF unsupported
                THEN <<"File format not supported. Supported formats: %1">>
                ELSE <<>>)
    IN /\ [i \in 1..Len(v.errors) |-> v.errors[i].text] = expected
       /\ (oversized /\ unsupported) => Len(v.errors) = 2
       /\ v.isValid <=> v.errors = <<>>

\* an oversized file of an unsupported format was validated
OversizedUnsupportedValidated ==
  /\ validation # None
  /\ file[1].size > cfg.maxFileSize
  /\ FindFormat(cfg.supportedFormats, file[1]) = "nomatch"
  /\ Len(validation[1].errors) = 2

\* C5: validate accepts the format whenever, for some configured format,
\* the extension and MIME type both match or the format's custom predicate
\* returns true; the format error appears only when neither holds for all.
ValidatorAloneAccepts ==
  validation # None =>
    LET f == file[1]
        errors == validation[1].errors
        formatError ==
          \E i \in 1..Len(errors) :
            errors[i].text = "File format not supported. Supported formats: %1"
        accepted(format) ==
          \/ /\ ToLowerCase(format.extension) = ToLowerCase(getFileExtension(f.name))
             /\ format.mimeType = f.type
          \/ format.validator = "accept"
    IN formatError
         <=> ~ \E i \in 1..Len(cfg.supportedFormats) : accepted(cfg.supportedFormats[i])

\* C6: for every Success outcome, raw.rowCount equals raw.rows.length and
\* every row has exactly raw.columnCount cells, columnCount being the
\* number of headers.
EnvelopeComplete ==
  result # None /\ result[1].success =>
    LET raw == result[1].content[1].raw
    IN /\ raw.rowCount = Len(raw.rows)
       /\ raw.columnCount = Len(raw.headers)
       /\ \A i \in 1..Len(raw.rows) : Len(raw.rows[i]) = raw.columnCount

\* C10: within one parse call createOcrWorker is called exactly once when
\* the file is dispatched to the image extractor and never otherwise,
\* whatever the outcome of the parse.
OcrInvocationPolicy ==
  file # None =>
    LET e == ToLowerCase(getFileExtension(file[1].name))
        dispatched == validation # None /\ validation[1].isValid
    IN ocrCreations = IF dispatched /\ e \in ImageExtensions THEN 1 ELSE 0

\* an image parse ended in a failure after its one worker creation
ImageParseFailedAfterOcr ==
  /\ pc = "done" /\ started = <<"parseImage">>
  /\ ocrCreations = 1 /\ worker = "terminated"
  /\ ~result[1].success

\* C12: a PDF never falls back to OCR: no OCR worker is created at any point
\* of the parse of a PDF, and a PDF that could not be opened or whose pages
\* gave no native text ends in a failure with code PARSE_ERROR.
PdfNeverOcr ==
  started = <<"parsePDF">> =>
    /\ ocrCreations = 0 /\ worker = "none"
    /\ (pc = "done" /\ (pdfDoc = "none" \/ pageTexts = <<>>)) =>
         /\ result # None /\ ~result[1].success
         /\ result[1].error[1].code = "PARSE_ERROR"

\* every page of an opened PDF was read and none had native text
PdfWithoutTextFailed ==
  /\ pc = "done" /\ pdfDoc = "destroyed" /\ pending = None /\ pagesLeft = 0
  /\ pageTexts = <<>> /\ ocrCreations = 0
  /\ result[1].error[1].message
       = <<Piece("No readable native text found in PDF", <<>>)>>

\* C13: once parsePDF has opened a document, the document is cleaned up and
\* destroyed before parse resolves, whether every page was read or reading
\* a page threw: an open document belongs to a parse that is still pending.
PdfDocumentReleased ==
  /\ pdfDoc = "open" => (settled = "pending" /\ pc \in {"pdfPage", "pdfFinally"})
  /\ (pc = "done" /\ pdfDoc # "none") => pdfDoc = "destroyed"

\* reading a page threw and the document was destroyed all the same
PdfPageThrewThenReleased ==
  /\ pc = "done" /\ pending # None /\ started = <<"parsePDF">>
  /\ pdfDoc = "destroyed" /\ settled = "resolved"

\* C16: a file that passes validate is dispatched to one of the extractors:
\* the 'Unsupported file type' branch of parse is never taken for it.
DefaultBranchUnreachable ==
  (validation # None /\ validation[1].isValid) =>
    /\ started # <<>>
    /\ (result # None /\ ~result[1].success) =>
         result[1].error[1].message[1].text # "Unsupported file type: %1"

\* C20: the size limit is inclusive: validate reports the size error
\* exactly when file.size is strictly greater than maxFileSize, and the
\* limit is 10 * 1024 * 1024 bytes when no maxFileSize is configured.
SizeLimitInclusive ==
  (pc = "validated" /\ validation # None) =>
    LET errors == validation[1].errors
        sizeError ==
          \E i \in 1..Len(errors) :
            errors[i].text = "File size (%1MB) exceeds maximum allowed size of %2MB"
    IN /\ sizeError <=> file[1].size > cfg.maxFileSize
       /\ \A c \in EnhancedFileParserConfig :
            Constructor(c) = cfg =>
              cfg.maxFileSize = IF c.maxFileSize = None THEN 10485760
                                ELSE c.maxFileSize[1]

\* a file of exactly the default limit passed the size check
ExactDefaultLimitAccepted ==
  /\ pc = "validated" /\ validation # None
  /\ file[1].size = 10485760 /\ cfg.maxFileSize = 10485760
  /\ validation[1].isValid

\* C11: every OCR worker obtained during the parse of an image is terminated
\* exactly once before that parse resolves, whatever recognition gave; no
\* worker is left running and none serves a second parse.
OcrWorkerScoped ==
  ocrRuntime # None =>
    LET rt == ocrRuntime[1]
    IN \A w \in 1..Len(rt.workers) :
         LET owner == rt.calls[rt.workers[w].owner]
         IN /\ owner.worker = w
            /\ rt.workers[w].recognitions <= 1
            /\ rt.workers[w].terminations <= 1
            /\ owner.pc = "done" <=> rt.workers[w].terminations = 1
            /\ \A v \in 1..Len(rt.workers) :
                 rt.workers[v].owner = rt.workers[w].owner => v = w

\* two image parses ended, one after a recognition that threw, each having
\* terminated its own worker
RecognitionThrewWorkerTerminated ==
  /\ ocrRuntime # None /\ Len(ocrRuntime[1].workers) = 2
  /\ \A i \in 1..2 : /\ ocrRuntime[1].calls[i].pc = "done"
                      /\ ocrRuntime[1].workers[i].terminations = 1
  /\ \E i \in 1..2 : ocrRuntime[1].calls[i].outcome = "recognize failed"

\* C14: parser invocations are independent: an image parse that on its own
\* would get the OCR runtime (Tesseract on window, or the CDN reachable from
\* its call on) does not fail to load it because of another invocation.
InvocationsIndependent ==
  ocrRuntime # None =>
    \A i \in 1..Len(ocrRuntime[1].calls) :
      LET call == ocrRuntime[1].calls[i]
      IN (call.present \/ call.cdnAtCall = "up") => call.outcome # "load failed"

\* C15: the lazy load of the OCR runtime happens at most once: at most one
\* script element is ever appended, whatever the number and overlap of the
\* image parses, and none by a parse that found createWorker on window.
ScriptAppendedAtMostOnce ==
  ocrRuntime # None =>
    LET rt == ocrRuntime[1]
    IN /\ rt.scripts <= 1
       /\ rt.scripts = Cardinality({i \in 1..Len(rt.calls) : rt.calls[i].appended})
       /\ \A i \in 1..Len(rt.calls) : rt.calls[i].appended => ~rt.calls[i].present

\* two image parses overlapped while the runtime was loading: the second
\* awaited the promise of the first and appended nothing
SecondParseSharedLoader ==
  /\ ocrRuntime # None /\ Len(ocrRuntime[1].calls) = 2
  /\ ocrRuntime[1].calls[1].appended /\ ~ocrRuntime[1].calls[2].appended
  /\ ocrRuntime[1].calls[2].via = "loader"
  /\ ocrRuntime[1].calls[2].outcome = "success"
  /\ ocrRuntime[1].scripts = 1

\* C17: upload session data integrity: whatever the order of the file
\* selections and of the ends of their parses, the parsed data and the
\* prefilled metadata shown by the App belong to the selected file.
UploadSessionIntegrity ==
  app # None =>
    /\ app[1].parsedData \in {0, app[1].selectedFile}
    /\ app[1].initialMetadata \in {0, app[1].selectedFile}

\* C18: MetadataForm calls onSubmit only when placeName and location are
\* both non-empty after trimming, and with the trimmed values; a submit
\* attempt with an empty or blank field calls onValidationError and never
\* onSubmit.
SubmitOnlyTrimmedNonEmpty ==
  (form # None /\ form[1].attempt # None) =>
    LET attempt == form[1].attempt[1]
        placeName == Trim(attempt.formData.placeName)
        location == Trim(attempt.formData.location)
    IN /\ Len(attempt.calls) = 1
       /\ IF placeName # <<>> /\ location # <<>>
          THEN /\ attempt.calls[1].fn = "onSubmit"
               /\ attempt.calls[1].arg = [placeName |-> placeName, location |-> location]
          ELSE /\ attempt.calls[1].fn = "onValidationError"
               /\ attempt.calls[1].arg # <<>>

\* values between spaces were submitted trimmed
TrimmedValuesSubmitted ==
  /\ form # None /\ form[1].attempt # None
  /\ form[1].attempt[1].formData = [placeName |-> <<" ", "a", " ">>,
                                    location |-> <<" ", "a", " ">>]
  /\ form[1].attempt[1].calls
       = <<[fn |-> "onSubmit", arg |-> [placeName |-> <<"a">>, location |-> <<"a">>]]>>

\* C19: submission enablement: whenever both fields contain a character
\* that is not whitespace and the form is neither disabled nor submitting,
\* the submit button is enabled.
SubmitEnabledWhenFilled ==
  form # None =>
    LET f == form[1]
        buttonDisabled == f.disabled \/ f.isSubmitting \/ ~isFormValid(f.formData, f.errors)
    IN (Trim(f.formData.placeName) # <<>> /\ Trim(f.formData.location) # <<>>
        /\ ~f.disabled /\ ~f.isSubmitting) => ~buttonDisabled

(***************************************************************************)
(* Properties of extractMetadataFromContent                                *)
(***************************************************************************)
\* C7: placeName is the empty string if and only if placeConfidence is 0.
PlaceCoOccurrence ==
  meta # None /\ ~meta[1].threw =>
    (meta[1].value[1].placeName = <<>> <=> meta[1].value[1].placeConfidence = 0)

\* C8: location is the empty string if and only if locationConfidence is 0.
LocationCoOccurrence ==
  meta # None /\ ~meta[1].threw =>
    (meta[1].value[1].location = <<>> <=> meta[1].value[1].locationConfidence = 0)

\* free text gave its location through the "looks like a location" fallback
LikelyLocationFound ==
  /\ meta # None /\ ~meta[1].threw
  /\ content[1].kind = "value" /\ content[1].value.t = "string"
  /\ meta[1].value[1].location # <<>>
  /\ meta[1].value[1].locationConfidence = 55

\* C9: extractMetadataFromContent never throws, for an input of any shape.
ExtractNeverThrows == meta # None => ~meta[1].threw

ExactPriorityBeforeSubstring ==
  content # None /\ content[1].kind = "table" =>
    LET headers == content[1].table.headers
        normalized == [i \in 1..Len(headers) |-> normalizeFieldName(headers[i])]
        holds(aliases, priorities, targetField) ==
          LET selected == findHeaderMatch(headers, aliases, targetField, fuseHits)
              equalled == {k \in 1..Len(priorities) :
                             \E i \in 1..Len(headers) : normalized[i] = priorities[k]}
              first == CHOOSE k \in equalled : \A j \in equalled : k <= j
          IN equalled # {} =>
               /\ selected.index # -1
               /\ \E k \in equalled : normalized[selected.index + 1] = priorities[k]
               /\ selected.confidence = 96 - (IF first - 1 < 10 THEN first - 1 ELSE 10)
    IN /\ holds(PLACE_ALIASES, PLACE_PRIORITY, "placeName")
       /\ holds(LOCATION_ALIASES, LOCATION_PRIORITY, "location")

\* C23: for a table, a table-header result with a value for at least one
\* field is returned as it is, the other field '' with confidence 0; only
\* when both fields are empty is the text strategy run: on the OCR text when
\* there is one, otherwise on the non-blank cell values in row-major order,
\* one per line
TableResultOrTextFallback ==
  content # None /\ content[1].kind = "table" =>
    LET table == content[1].table
        tableResult == extractFromTableData(table, fuseHits)
        cells == Concat(table.rows)
        filled == SelectSeq([i \in 1..Len(cells) |-> StringOrEmpty(cells[i])],
                            LAMBDA t : Trim(t) # <<>>)
        text == IF table.ocrText # None /\ table.ocrText[1] # <<>>
                THEN table.ocrText[1] ELSE Join(filled, <<"\n">>)
    IN /\ ~meta[1].threw
       /\ IF tableResult.placeName # <<>> \/ tableResult.location # <<>>
          THEN /\ meta[1].value[1] = tableResult
               /\ tableResult.placeName = <<>> => tableResult.placeConfidence = 0
               /\ tableResult.location = <<>> => tableResult.locationConfidence = 0
          ELSE meta[1].value[1] = extractFromText(text)

\* a table without OCR text whose headers match nothing and whose second
\* row holds the line the text strategy takes both fields from
SecondRowFoundByTextStrategy ==
  /\ content # None /\ content[1].kind = "table"
  /\ content[1].table.ocrText = None
  /\ extractFromTableData(content[1].table, fuseHits) = emptyResult
  /\ Len(content[1].table.rows) = 2
  /\ extractFromText(flattenedText(<<content[1].table.rows[1]>>)) = emptyResult
  /\ meta[1].value[1].placeName # <<>>

FirstLabelledLineWins ==
  content # None /\ content[1].kind = "value" /\ content[1].value.t = "string" =>
    LET lines == NonBlankLines(content[1].value.v)
        remainder(labels, k) ==
          IF PrefixMatch(lines[k], labels) = None THEN <<>>
          ELSE cleanValue(PrefixMatch(lines[k], labels)[1])
        supplied(labels) == {k \in 1..Len(lines) : remainder(labels, k) # <<>>}
        first(labels) == CHOOSE k \in supplied(labels) :
                           \A j \in supplied(labels) : k <= j
        arrowEnds ==
          \E i \in 1..Len(lines) :
            /\ InlineMatch(lines[i]) # None
            /\ cleanValue(InlineMatch(lines[i])[1].place) # <<>>
            /\ StripTrailingSymbols(cleanValue(InlineMatch(lines[i])[1].location)) # <<>>
            /\ ~(/\ \E k \in supplied(PlaceLabels) : k < i
                 /\ \E k \in supplied(LocationLabels) : k < i)
        r == meta[1].value[1]
        holds(labels, value, confidence) ==
          IF supplied(labels) # {}
          THEN value = remainder(labels, first(labels)) /\ confidence = 90
          ELSE confidence \in {0, 55}
    IN ~arrowEnds => /\ holds(PlaceLabels, r.placeName, r.placeConfidence)
                     /\ holds(LocationLabels, r.location, r.locationConfidence)

\* two lines with a place label and different remainders: the first is kept
FirstOfTwoLabelsKept ==
  /\ content # None /\ content[1].kind = "value" /\ content[1].value.t = "string"
  /\ LET lines == NonBlankLines(content[1].value.v)
     IN /\ Len(lines) = 2
        /\ PrefixMatch(lines[1], PlaceLabels) # None
        /\ PrefixMatch(lines[2], PlaceLabels) # None
        /\ cleanValue(PrefixMatch(lines[1], PlaceLabels)[1]) # <<>>
        /\ cleanValue(PrefixMatch(lines[2], PlaceLabels)[1])
             \notin {<<>>, cleanValue(PrefixMatch(lines[1], PlaceLabels)[1])}
        /\ meta[1].value[1].placeName = cleanValue(PrefixMatch(lines[1], PlaceLabels)[1])
        /\ meta[1].value[1].placeConfidence = 90

(***************************************************************************)
(* Properties of parseJSON                                                 *)
(***************************************************************************)
\* C27: a JSON document that is null, a scalar, an empty array or an array
\* whose first element is a scalar or null makes parse return the failure
\* PARSE_ERROR with the message 'JSON format not supported...': every step
\* that ends parseJSON the way such a document ends it gives that result
UnsupportedJsonReported ==
  [][pc = "parseJSON" =>
       \A data \in JsonDocuments :
         /\ \/ data.t \in {"null", "number", "string", "boolean"}
            \/ data.t = "array" /\ data.items = <<>>
            \/ /\ data.t = "array" /\ data.items # <<>>
               /\ data.items[1].t \in {"null", "number", "string", "boolean"}
         /\ result' = SettleOutcome(parseJSONData(data), file[1]).result
         => /\ ~result'[1].success
            /\ result'[1].error[1].code = "PARSE_ERROR"
            /\ result'[1].error[1].message[1].text
                 = "JSON format not supported. Expected array of objects or single object."]_vars

(***************************************************************************)
(* Properties of the two validators                                        *)
(***************************************************************************)
\* C28: FileParser.validate and EnhancedFileParser.validate of parsers made
\* from the same supportedFormats and maxFileSize return the same
\* ValidationResult (isValid and the ordered errors) for every file
ValidatorsAgree ==
  pc = "validated" =>
    LET first == FileParserValidate(cfg, file[1])
    IN IF first.threw THEN validation = None
       ELSE /\ validation # None
            /\ validation[1].isValid = first.isValid
            /\ validation[1].errors = first.errors

\* C29: in findHeaderMatch the alias tiers (0.95 and 0.82) never give the
\* result: whenever a normalized header equals or contains an alias of the
\* field, the priority tier has found a column and findHeaderMatch returns
\* it, each alias being a name of the field's priority list
AliasTiersNeverReached ==
  content # None /\ content[1].kind = "table" =>
    LET headers == content[1].table.headers
        holds(aliases, priorities, targetField) ==
          LET selected == findHeaderMatch(headers, aliases, targetField, fuseHits)
              preferred ==
                findPriorityMatch([i \in 1..Len(headers) |->
                                     normalizeFieldName(headers[i])], priorities)
              aliasHit ==
                \E i \in 1..Len(headers) :
                  LET header == normalizeFieldName(headers[i])
                  IN \E k \in 1..Len(aliases) : Includes(header, aliases[k])
          IN aliasHit => preferred.index # -1 /\ selected = preferred
    IN /\ holds(PLACE_ALIASES, PLACE_PRIORITY, "placeName")
       /\ holds(LOCATION_ALIASES, LOCATION_PRIORITY, "location")

\* a header that contains the alias 'name' without being equal to an alias:
\* the place column comes from the substring priority tier at index 5
AliasContainedFoundByPriority ==
  /\ content # None /\ content[1].kind = "table"
  /\ Len(content[1].table.headers) = 1
  /\ normalizeFieldName(content[1].table.headers[1])
       \notin {PLACE_ALIASES[k] : k \in 1..Len(PLACE_ALIASES)}
  /\ Includes(normalizeFieldName(content[1].table.headers[1]), Word.name)
  /\ findHeaderMatch(content[1].table.headers, PLACE_ALIASES, "placeName", fuseHits)
       = [index |-> 0, confidence |-> 83]
  /\ meta # None

\* C30: in the table-header strategy the place column and the location
\* column are different columns whenever both are found, so placeName and
\* location are never read from the same cell
PlaceAndLocationColumnsDiffer ==
  content # None /\ content[1].kind = "table" =>
    LET headers == content[1].table.headers
        place == findHeaderMatch(headers, PLACE_ALIASES, "placeName", fuseHits)
        location == findHeaderMatch(headers, LOCATION_ALIASES, "location", fuseHits)
    IN place.index # -1 /\ location.index # -1 => place.index # location.index

====
